---- MODULE Spec2Model ----
(***************************************************************************)
(* Trading execution and risk core: limits tracker, risk manager, position *)
(* sizing, paper executor, order manager and the bar-replay engine.        *)
(*                                                                         *)
(* Units.  Prices and ATR are integers in hundredths of an index point     *)
(* (5000.00 -> 500000, tick_size 0.25 -> 25).  Money is in cents           *)
(* (tick_value 1.25 -> 125).  account_equity is in whole dollars.          *)
(* Percentages are in basis points (0.015 -> 150), ATR multiples and the   *)
(* risk:reward ratio in tenths (2.0 -> 20).  Stop distances "in ticks" are *)
(* carried in hundredths of a tick so that a stop that is not aligned to   *)
(* the tick grid keeps its fractional tick count.                          *)
(***************************************************************************)
EXTENDS Integers, Sequences, FiniteSets, TLC

VARIABLES tracker, rm, clock, last, om, eng, fn

vars == <<tracker, rm, clock, last, om, eng, fn>>

(***************************************************************************)
(* Program constants                                                       *)
(***************************************************************************)
TickSize == 25

TickValue == 125

CommissionPerSide == 31

RISK_DEFAULTS ==
  [ max_risk_per_trade       |-> 150,
    daily_loss_limit         |-> 300,
    weekly_loss_limit        |-> 600,
    max_daily_trades         |-> 10,
    min_risk_reward_ratio    |-> 20,
    max_concurrent_positions |-> 2,
    always_use_stop_loss     |-> TRUE,
    max_stop_distance_atr    |-> 20,
    cooldown_after_loss      |-> 60,
    max_position_size        |-> 2,
    skip_first_minutes       |-> 5,
    skip_last_minutes        |-> 5 ]

(***************************************************************************)
(* Bounds of the model                                                     *)
(***************************************************************************)
MaxClock == 60

MaxTrades == 2

MaxLossCents == 60000

MaxRmEvents == 1

MaxOpen == 2

None == -999999999

Abs(x) == IF x < 0 THEN -x ELSE x

Max(a, b) == IF a >= b THEN a ELSE b

Min(a, b) == IF a <= b THEN a ELSE b

(* {**RISK_DEFAULTS, **(risk_config or {})} *)
MergeConfig(defaults, override) ==
  [k \in DOMAIN defaults |->
     IF k \in DOMAIN override THEN override[k] ELSE defaults[k]]

(***************************************************************************)
(* Daily/weekly limits tracker                                             *)
(***************************************************************************)
NewTracker(equity, cfg) ==
  [ account_equity        |-> equity,
    daily_loss_limit_pct  |-> cfg.daily_loss_limit,
    weekly_loss_limit_pct |-> cfg.weekly_loss_limit,
    max_daily_trades      |-> cfg.max_daily_trades,
    cooldown_seconds      |-> cfg.cooldown_after_loss,
    realized_pnl_today    |-> 0,
    realized_pnl_week     |-> 0,
    unrealized_pnl        |-> 0,
    trades_today          |-> 0,
    daily_halted          |-> FALSE,
    weekly_halted         |-> FALSE,
    last_loss_time        |-> None,
    events                |-> << >> ]

(* account_equity * pct, in cents * 100 (equity dollars * basis points) *)
daily_loss_limit_dollars(t) == t.account_equity * t.daily_loss_limit_pct

weekly_loss_limit_dollars(t) == t.account_equity * t.weekly_loss_limit_pct

total_pnl_today(t) == t.realized_pnl_today + t.unrealized_pnl

is_in_cooldown(t, now) ==
  IF t.last_loss_time = None THEN FALSE
  ELSE (now - t.last_loss_time) < t.cooldown_seconds

check_daily_limit_recompute(t) ==
  [t EXCEPT !.daily_halted =
     (total_pnl_today(t) * 100 <= -daily_loss_limit_dollars(t))]

check_daily_limit_strict(t) ==
  IF t.daily_halted THEN t
  ELSE IF total_pnl_today(t) * 100 < -daily_loss_limit_dollars(t)
       THEN [t EXCEPT !.daily_halted = TRUE,
                      !.events = Append(@, "DAILY_LIMIT")]
       ELSE t

check_daily_limit_refire(t) ==
  IF total_pnl_today(t) * 100 <= -daily_loss_limit_dollars(t)
  THEN [t EXCEPT !.daily_halted = TRUE,
                 !.events = Append(@, "DAILY_LIMIT")]
  ELSE t

check_daily_limit(t) ==
  IF t.daily_halted THEN t
  ELSE IF total_pnl_today(t) * 100 <= -daily_loss_limit_dollars(t)
       THEN [t EXCEPT !.daily_halted = TRUE,
                      !.events = Append(@, "DAILY_LIMIT")]
       ELSE t

check_weekly_limit(t) ==
  IF t.weekly_halted THEN t
  ELSE IF (t.realized_pnl_week + t.unrealized_pnl) * 100
            <= -weekly_loss_limit_dollars(t)
       THEN [t EXCEPT !.weekly_halted = TRUE,
                      !.events = Append(@, "WEEKLY_LIMIT")]
       ELSE t

record_trade_closed_nonpositive(t, pnl, now) ==
  LET t1 == [t EXCEPT !.realized_pnl_today = @ + pnl,
                      !.realized_pnl_week  = @ + pnl,
                      !.trades_today       = @ + 1,
                      !.last_loss_time     = IF pnl <= 0 THEN now ELSE @]
  IN  check_weekly_limit(check_daily_limit(t1))

record_trade_closed(t, pnl, now) ==
  LET t1 == [t EXCEPT !.realized_pnl_today = @ + pnl,
                      !.realized_pnl_week  = @ + pnl,
                      !.trades_today       = @ + 1,
                      !.last_loss_time     = IF pnl < 0 THEN now ELSE @]
  IN  check_weekly_limit(check_daily_limit(t1))

update_unrealized(t, pnl) ==
  check_weekly_limit(check_daily_limit([t EXCEPT !.unrealized_pnl = pnl]))

can_trade_weekly_first(t, now) ==
  IF t.weekly_halted THEN [ok |-> FALSE, reason |-> "Weekly loss limit reached"]
  ELSE IF t.daily_halted THEN [ok |-> FALSE, reason |-> "Daily loss limit reached"]
  ELSE IF t.trades_today >= t.max_daily_trades
       THEN [ok |-> FALSE, reason |-> "Max daily trades reached"]
  ELSE IF is_in_cooldown(t, now)
       THEN [ok |-> FALSE, reason |-> "Cooldown active"]
  ELSE [ok |-> TRUE, reason |-> ""]

can_trade(t, now) ==
  IF t.daily_halted THEN [ok |-> FALSE, reason |-> "Daily loss limit reached"]
  ELSE IF t.weekly_halted THEN [ok |-> FALSE, reason |-> "Weekly loss limit reached"]
  ELSE IF t.trades_today >= t.max_daily_trades
       THEN [ok |-> FALSE, reason |-> "Max daily trades reached"]
  ELSE IF is_in_cooldown(t, now)
       THEN [ok |-> FALSE, reason |-> "Cooldown active"]
  ELSE [ok |-> TRUE, reason |-> ""]

reset_daily_and_week(t) ==
  [t EXCEPT !.realized_pnl_today = 0,
            !.realized_pnl_week  = 0,
            !.unrealized_pnl     = 0,
            !.trades_today       = 0,
            !.daily_halted       = FALSE,
            !.weekly_halted      = FALSE,
            !.last_loss_time     = None,
            !.events             = << >>]

reset_daily(t) ==
  [t EXCEPT !.realized_pnl_today = 0,
            !.unrealized_pnl     = 0,
            !.trades_today       = 0,
            !.daily_halted       = FALSE,
            !.last_loss_time     = None,
            !.events             = << >>]

reset_weekly(t) ==
  reset_daily([t EXCEPT !.realized_pnl_week = 0, !.weekly_halted = FALSE])

(***************************************************************************)
(* Position and risk math                                                  *)
(***************************************************************************)
(* Python round(): nearest integer, exact halves to the even neighbour.    *)
(* RoundDiv(n, d) = round(n / d) for d > 0.                                *)
RoundDiv(n, d) ==
  LET q == n \div d
      r == n % d
  IN  IF 2 * r < d THEN q
      ELSE IF 2 * r > d THEN q + 1
      ELSE IF q % 2 = 0 THEN q ELSE q + 1

round_to_tick(price, tick_size) ==
  IF tick_size <= 0 THEN price
  ELSE RoundDiv(price, tick_size) * tick_size

calculate_position_size_ceil(account_equity, stop_distance_ticks, tick_value, max_risk_pct, max_position_size) ==
  IF account_equity <= 0 \/ stop_distance_ticks <= 0
     \/ tick_value <= 0 \/ max_risk_pct <= 0 THEN 0
  ELSE LET max_risk_dollars  == account_equity * max_risk_pct
           risk_per_contract == stop_distance_ticks * tick_value
           contracts == (max_risk_dollars + risk_per_contract - 1)
                          \div risk_per_contract
       IN  Max(Min(contracts, max_position_size), 0)

calculate_position_size_uncapped(account_equity, stop_distance_ticks, tick_value, max_risk_pct, max_position_size) ==
  IF account_equity <= 0 \/ stop_distance_ticks <= 0
     \/ tick_value <= 0 \/ max_risk_pct <= 0 THEN 0
  ELSE Max((account_equity * max_risk_pct)
             \div (stop_distance_ticks * tick_value), 0)

(* account_equity in dollars, max_risk_pct in basis points,                *)
(* stop_distance_ticks in hundredths of a tick, tick_value in cents:       *)
(* (equity * pct / 10^4) / (ticks / 10^2 * value / 10^2).                  *)
calculate_position_size(account_equity, stop_distance_ticks, tick_value, max_risk_pct, max_position_size) ==
  IF account_equity <= 0 THEN 0
  ELSE IF stop_distance_ticks <= 0 THEN 0
  ELSE IF tick_value <= 0 THEN 0
  ELSE IF max_risk_pct <= 0 THEN 0
  ELSE LET max_risk_dollars  == account_equity * max_risk_pct
           risk_per_contract == stop_distance_ticks * tick_value
       IN  IF risk_per_contract <= 0 THEN 0
           ELSE LET contracts == max_risk_dollars \div risk_per_contract
                IN  Max(Min(contracts, max_position_size), 0)

(* stop_distance_ticks, atr_ticks in hundredths of a tick; multiple in tenths *)
validate_stop_distance(stop_distance_ticks, atr_ticks, max_atr_multiple) ==
  IF atr_ticks <= 0 THEN FALSE
  ELSE IF stop_distance_ticks <= 0 THEN FALSE
  ELSE stop_distance_ticks * 10 <= atr_ticks * max_atr_multiple

(* result in hundredths of a tick *)
calculate_stop_distance_ticks(entry_price, stop_price, direction, tick_size) ==
  LET distance == IF direction = "LONG" THEN entry_price - stop_price
                  ELSE stop_price - entry_price
  IN  IF distance <= 0 THEN 0 ELSE (distance * 100) \div tick_size

(* reward / risk < min_ratio (tenths); risk <= 0 gives ratio 0.0 *)
rr_below_minimum(entry_price, stop_price, target_price, direction, min_ratio) ==
  LET risk   == IF direction = "LONG" THEN entry_price - stop_price
                ELSE stop_price - entry_price
      reward == IF direction = "LONG" THEN target_price - entry_price
                ELSE entry_price - target_price
  IN  IF risk <= 0 THEN 0 < min_ratio
      ELSE reward * 10 < min_ratio * risk

validate_stop_placement(entry_price, stop_price, direction, atr, max_atr_multiple, tick_size) ==
  LET wrong_side == IF direction = "LONG" THEN stop_price >= entry_price
                    ELSE stop_price <= entry_price
      distance   == IF direction = "LONG" THEN entry_price - stop_price
                    ELSE stop_price - entry_price
      r          == distance % tick_size
  IN  IF wrong_side
      THEN [ok |-> FALSE,
            reason |-> IF direction = "LONG"
                       THEN "Long stop must be below entry price"
                       ELSE "Short stop must be above entry price"]
      ELSE IF distance <= 0
      THEN [ok |-> FALSE, reason |-> "Stop distance must be positive"]
      ELSE IF atr > 0 /\ distance * 10 > atr * max_atr_multiple
      THEN [ok |-> FALSE, reason |-> "Stop distance exceeds ATR multiple"]
      ELSE IF Min(r, tick_size - r) * 1000 > tick_size
      THEN [ok |-> FALSE, reason |-> "Stop distance not aligned to tick size"]
      ELSE [ok |-> TRUE, reason |-> ""]

(***************************************************************************)
(* Risk manager                                                            *)
(***************************************************************************)
NewRiskManager(equity, risk_config) ==
  [ account_equity |-> equity,
    config         |-> MergeConfig(RISK_DEFAULTS, risk_config),
    open_positions |-> 0,
    events         |-> << >> ]

(* A datetime is [tz, weekday, minute]: weekday 0 = Monday .. 6 = Sunday,  *)
(* minute of the day 0..1439, tz "naive", "CT" or "ET".  A naive time is   *)
(* localized to Central time as it stands, an aware one is converted; the  *)
(* Eastern zone is one hour ahead of Central.                              *)
ToCentral(now) ==
  IF now.tz = "ET"
  THEN IF now.minute >= 60
       THEN [weekday |-> now.weekday, minute |-> now.minute - 60]
       ELSE [weekday |-> (now.weekday + 6) % 7, minute |-> now.minute + 1380]
  ELSE [weekday |-> now.weekday, minute |-> now.minute]

(* datetime.time(hour, minute) raises ValueError unless minute is in 0..59 *)
ValidTimeMinute(m) == m >= 0 /\ m <= 59

check_trading_hours(cfg, now) ==
  LET ct           == ToCentral(now)
      current_time == ct.minute
      weekday      == ct.weekday
      skip_first   == cfg.skip_first_minutes
      skip_last    == cfg.skip_last_minutes
  IN  IF weekday = 5
      THEN [ok |-> FALSE, raised |-> FALSE, reason |-> "Market closed (Saturday)"]
      ELSE IF weekday = 6 /\ current_time < 17 * 60
      THEN [ok |-> FALSE, raised |-> FALSE, reason |-> "Market closed (Sunday before 5PM CT)"]
      ELSE IF weekday = 4 /\ current_time >= 16 * 60
      THEN [ok |-> FALSE, raised |-> FALSE, reason |-> "Market closed (Friday after 4PM CT)"]
      ELSE IF 16 * 60 <= current_time /\ current_time < 17 * 60 /\ weekday \in {0, 1, 2, 3}
      THEN [ok |-> FALSE, raised |-> FALSE, reason |-> "Daily maintenance break (4-5PM CT)"]
      ELSE IF ~ValidTimeMinute(skip_first)
      THEN [ok |-> FALSE, raised |-> TRUE, reason |-> "ValueError"]
      ELSE IF current_time >= 17 * 60 /\ current_time < 17 * 60 + skip_first
      THEN [ok |-> FALSE, raised |-> FALSE, reason |-> "Skipping first minutes of session"]
      ELSE IF ~ValidTimeMinute(60 - skip_last)
      THEN [ok |-> FALSE, raised |-> TRUE, reason |-> "ValueError"]
      ELSE IF weekday = 4 /\ current_time >= 15 * 60 + (60 - skip_last)
      THEN [ok |-> FALSE, raised |-> FALSE, reason |-> "Skipping last minutes before close"]
      ELSE [ok |-> TRUE, raised |-> FALSE, reason |-> ""]

(* _reject: the result, and the WARNING event appended to rm.events *)
reject(signal, reason, check_name) ==
  [ decision      |-> "REJECTED",
    position_size |-> 0,
    reason        |-> reason,
    signal        |-> signal,
    events        |-> << [event_type |-> check_name, severity |-> "WARNING"] >> ]

Raised(signal, what) ==
  [ decision      |-> "RAISED",
    position_size |-> 0,
    reason        |-> what,
    signal        |-> signal,
    events        |-> << >> ]

Approved(signal, position_size) ==
  [ decision      |-> "APPROVED",
    position_size |-> position_size,
    reason        |-> "All risk checks passed",
    signal        |-> signal,
    events        |-> << >> ]

(* 7. position sizing *)
evaluate_sizing_no_zero_check(r, signal, stop_ticks) ==
  Approved(signal, calculate_position_size(r.account_equity, stop_ticks, TickValue, r.config.max_risk_per_trade, r.config.max_position_size))

evaluate_sizing(r, signal, stop_ticks) ==
  LET position_size == calculate_position_size(r.account_equity, stop_ticks, TickValue, r.config.max_risk_per_trade, r.config.max_position_size)
  IN  IF position_size <= 0
      THEN reject(signal, "Position size calculated as 0 (insufficient equity or stop too wide)", "POSITION_SIZE_CHECK")
      ELSE Approved(signal, position_size)

(* 4. stop presence and placement, 5. distance vs ATR, 6. risk:reward *)
evaluate_stop_checks(r, signal, atr) ==
  IF r.config.always_use_stop_loss /\ signal.stop_loss = None
  THEN reject(signal, "Stop-loss is required", "STOP_REQUIRED_CHECK")
  ELSE IF signal.stop_loss = None
  THEN Raised(signal, "TypeError")
  ELSE
    LET placement  == validate_stop_placement(signal.entry_price, signal.stop_loss, signal.direction, atr, r.config.max_stop_distance_atr, TickSize)
        stop_ticks == calculate_stop_distance_ticks(signal.entry_price, signal.stop_loss, signal.direction, TickSize)
    IN  IF ~placement.ok
        THEN reject(signal, placement.reason, "STOP_VALIDATION_CHECK")
        ELSE IF ~validate_stop_distance(stop_ticks, (atr * 100) \div TickSize, r.config.max_stop_distance_atr)
        THEN reject(signal, "Stop distance exceeds ATR limit", "ATR_DISTANCE_CHECK")
        ELSE IF signal.take_profit # None
                /\ rr_below_minimum(signal.entry_price, signal.stop_loss, signal.take_profit, signal.direction, r.config.min_risk_reward_ratio)
        THEN reject(signal, "R:R ratio below minimum", "RR_RATIO_CHECK")
        ELSE evaluate_sizing(r, signal, stop_ticks)

(* 3. concurrent positions *)
evaluate_positions(r, signal, atr) ==
  IF r.open_positions >= r.config.max_concurrent_positions
  THEN reject(signal, "Max concurrent positions reached", "MAX_POSITIONS_CHECK")
  ELSE evaluate_stop_checks(r, signal, atr)

(* 2. trading hours *)
evaluate_hours(r, signal, atr, current_time) ==
  LET hours == check_trading_hours(r.config, current_time)
  IN  IF hours.raised THEN Raised(signal, hours.reason)
      ELSE IF ~hours.ok THEN reject(signal, hours.reason, "TRADING_HOURS_CHECK")
      ELSE evaluate_positions(r, signal, atr)

evaluate_hours_first(r, t, signal, atr, current_time, now) ==
  LET hours == check_trading_hours(r.config, current_time)
      ct    == can_trade(t, now)
  IN  IF hours.raised THEN Raised(signal, hours.reason)
      ELSE IF ~hours.ok THEN reject(signal, hours.reason, "TRADING_HOURS_CHECK")
      ELSE IF ~ct.ok THEN reject(signal, ct.reason, "DAILY_LIMIT_CHECK")
      ELSE evaluate_positions(r, signal, atr)

(* 1. halt / trade cap / cooldown; r is the manager, t its daily_tracker,  *)
(* now the monotonic clock read by is_in_cooldown                          *)
evaluate(r, t, signal, atr, current_time, now) ==
  LET ct == can_trade(t, now)
  IN  IF ~ct.ok THEN reject(signal, ct.reason, "DAILY_LIMIT_CHECK")
      ELSE evaluate_hours(r, signal, atr, current_time)

(***************************************************************************)
(* Inputs enumerated by the model                                          *)
(***************************************************************************)
RiskConfigs ==
  << [max_daily_trades |-> 10],
     [max_daily_trades |-> 2, cooldown_after_loss |-> 30],
     [max_risk_per_trade |-> 500, max_position_size |-> 5],
     [skip_last_minutes |-> 0] >>

StartingEquity == 10000

EquityValues == {5000, 10000}

PnlValues == {-20000, -10000, 10000}

UnrealizedValues == {-20000, 0}

ClockSteps == {30}

Sig(d, e, s, tp) ==
  [strategy |-> "mean_reversion", direction |-> d, entry_price |-> e, stop_loss |-> s, take_profit |-> tp]

Signals ==
  { Sig("LONG", 500000, 499600, 500800),
    Sig("LONG", 500000, 499600, None),
    Sig("LONG", 500000, 499600, 500200),
    Sig("LONG", 500000, 498500, 503000),
    Sig("LONG", 500000, 499610, 500800),
    Sig("LONG", 500000, 500400, 500800),
    Sig("LONG", 500000, None, 500800),
    Sig("LONG", 500000, 490000, None),
    Sig("SHORT", 500000, 500400, 499200),
    Sig("SHORT", 500000, 499600, 499200) }

AtrValues == {0, 300, 750, 6000}

DT(tz, wd, h, m) == [tz |-> tz, weekday |-> wd, minute |-> h * 60 + m]

EvalTimes ==
  { DT("CT", 2, 10, 0), DT("naive", 2, 10, 0), DT("ET", 2, 17, 30),
    DT("CT", 2, 16, 30), DT("CT", 2, 17, 2), DT("CT", 4, 15, 57),
    DT("CT", 4, 16, 30), DT("CT", 5, 10, 0), DT("CT", 6, 12, 0),
    DT("ET", 0, 0, 30) }

SeqSignals ==
  { Sig("LONG", 500000, 499600, 500800), Sig("SHORT", 500000, 500400, 499900) }

SeqAtrValues == {300}

SeqTimes == { DT("CT", 2, 10, 0), DT("CT", 5, 10, 0) }

NoSignal == Sig("", 0, None, None)

NoTime == DT("", 0, 0, 0)

NoResult ==
  [decision |-> "", position_size |-> 0, reason |-> "", signal |-> NoSignal, events |-> << >>]

Op(name) ==
  [op |-> name, result |-> NoResult, signal |-> NoSignal, atr |-> 0, time |-> NoTime]

(***************************************************************************)
(* Operations of the risk manager and its limits tracker                   *)
(***************************************************************************)
Idle ==
  /\ om = << >>
  /\ eng = [pc |-> "idle"]
  /\ fn = [pc |-> "idle"]

SeqConfigs == {1, 2}

Init ==
  /\ \E i \in SeqConfigs :
       /\ rm = NewRiskManager(StartingEquity, RiskConfigs[i])
       /\ tracker = NewTracker(StartingEquity, MergeConfig(RISK_DEFAULTS, RiskConfigs[i]))
  /\ clock = 0
  /\ last = Op("init")
  /\ Idle

(* one call of RiskManager.evaluate; a raised exception leaves no result *)
EvaluateStep(signal, atr, current_time) ==
  LET res == evaluate(rm, tracker, signal, atr, current_time, clock)
  IN  /\ Len(rm.events) + Len(res.events) <= MaxRmEvents
      /\ rm' = [rm EXCEPT !.events = @ \o res.events]
      /\ last' = [Op("evaluate") EXCEPT !.result = res, !.signal = signal, !.atr = atr, !.time = current_time]
      /\ UNCHANGED <<tracker, clock, om, eng>>

Evaluate(signal, atr, current_time) ==
  /\ EvaluateStep(signal, atr, current_time)
  /\ UNCHANGED fn

RecordPositionOpened ==
  /\ rm.open_positions < MaxOpen
  /\ rm' = [rm EXCEPT !.open_positions = @ + 1]
  /\ last' = Op("record_position_opened")
  /\ UNCHANGED <<tracker, clock, om, eng, fn>>

PnlInBounds(t, pnl) ==
  /\ t.trades_today < MaxTrades
  /\ t.realized_pnl_week + pnl >= -MaxLossCents
  /\ t.realized_pnl_week + pnl <= MaxLossCents

RecordPositionClosed(pnl) ==
  /\ PnlInBounds(tracker, pnl)
  /\ rm' = [rm EXCEPT !.open_positions = Max(0, @ - 1)]
  /\ tracker' = record_trade_closed(tracker, pnl, clock)
  /\ last' = Op("record_position_closed")
  /\ UNCHANGED <<clock, om, eng, fn>>

RecordTradeClosed(pnl) ==
  /\ PnlInBounds(tracker, pnl)
  /\ tracker' = record_trade_closed(tracker, pnl, clock)
  /\ last' = Op("record_trade_closed")
  /\ UNCHANGED <<rm, clock, om, eng, fn>>

UpdateUnrealized(pnl) ==
  /\ tracker' = update_unrealized(tracker, pnl)
  /\ last' = Op("update_unrealized")
  /\ UNCHANGED <<rm, clock, om, eng, fn>>

ResetDaily ==
  /\ tracker' = reset_daily(tracker)
  /\ last' = Op("reset_daily")
  /\ UNCHANGED <<rm, clock, om, eng, fn>>

ResetWeekly ==
  /\ tracker' = reset_weekly(tracker)
  /\ last' = Op("reset_weekly")
  /\ UNCHANGED <<rm, clock, om, eng, fn>>

UpdateEquity(new_equity) ==
  /\ rm' = [rm EXCEPT !.account_equity = new_equity]
  /\ tracker' = [tracker EXCEPT !.account_equity = new_equity]
  /\ last' = Op("update_equity")
  /\ UNCHANGED <<clock, om, eng, fn>>

Tick(dt) ==
  /\ clock + dt <= MaxClock
  /\ clock' = clock + dt
  /\ last' = Op("tick")
  /\ UNCHANGED <<tracker, rm, om, eng, fn>>

Next ==
  \/ \E s \in SeqSignals, a \in SeqAtrValues, t \in SeqTimes : Evaluate(s, a, t)
  \/ RecordPositionOpened
  \/ \E p \in PnlValues : RecordPositionClosed(p)
  \/ \E p \in UnrealizedValues : UpdateUnrealized(p)
  \/ ResetDaily
  \/ ResetWeekly
  \/ \E dt \in ClockSteps : Tick(dt)

Spec == Init /\ [][Next]_vars

NextLimits ==
  \/ \E p \in PnlValues : RecordTradeClosed(p)
  \/ \E p \in UnrealizedValues : UpdateUnrealized(p)
  \/ ResetDaily
  \/ ResetWeekly
  \/ \E e \in EquityValues : UpdateEquity(e)
  \/ \E dt \in ClockSteps : Tick(dt)

SpecLimits == Init /\ [][NextLimits]_vars

(***************************************************************************)
(* The tracker's cooldown against the monotonic clock.  fn.loss_at keeps   *)
(* the clock value of the most recent losing close since the last daily    *)
(* reset, as the caller saw it.                                            *)
(***************************************************************************)
CooldownPnlValues == {-10000, 0, 10000}

InitCooldown ==
  /\ \E i \in SeqConfigs :
       /\ rm = NewRiskManager(StartingEquity, RiskConfigs[i])
       /\ tracker = NewTracker(StartingEquity, MergeConfig(RISK_DEFAULTS, RiskConfigs[i]))
  /\ clock = 0
  /\ last = Op("init")
  /\ om = << >>
  /\ eng = [pc |-> "idle"]
  /\ fn = [pc |-> "cooldown", loss_at |-> None]

CooldownTradeClosed(pnl) ==
  /\ PnlInBounds(tracker, pnl)
  /\ tracker' = record_trade_closed(tracker, pnl, clock)
  /\ fn' = [fn EXCEPT !.loss_at = IF pnl < 0 THEN clock ELSE @]
  /\ last' = Op("record_trade_closed")
  /\ UNCHANGED <<rm, clock, om, eng>>

CooldownResetDaily ==
  /\ tracker' = reset_daily(tracker)
  /\ fn' = [fn EXCEPT !.loss_at = None]
  /\ last' = Op("reset_daily")
  /\ UNCHANGED <<rm, clock, om, eng>>

CooldownResetWeekly ==
  /\ tracker' = reset_weekly(tracker)
  /\ fn' = [fn EXCEPT !.loss_at = None]
  /\ last' = Op("reset_weekly")
  /\ UNCHANGED <<rm, clock, om, eng>>

NextCooldown ==
  \/ \E p \in CooldownPnlValues : CooldownTradeClosed(p)
  \/ \E p \in UnrealizedValues : UpdateUnrealized(p)
  \/ CooldownResetDaily
  \/ CooldownResetWeekly
  \/ \E dt \in ClockSteps : Tick(dt)

SpecCooldown == InitCooldown /\ [][NextCooldown]_vars

(***************************************************************************)
(* evaluate and calculate_position_size as functions of their inputs: the  *)
(* initial state draws the inputs, one action applies the function.  The   *)
(* tracker states drawn are those reached by the listed call sequences.    *)
(***************************************************************************)
Close(pnl) == [op |-> "close", pnl |-> pnl]

ResetD == [op |-> "reset_daily", pnl |-> 0]

TrackerHistories ==
  { << >>,
    << Close(-10000) >>,
    << Close(10000), Close(10000) >>,
    << Close(-10000), Close(10000) >>,
    << Close(-30000) >>,
    << Close(-30000), Close(10000) >>,
    << Close(-30000), ResetD, Close(-30000) >>,
    << Close(-30000), ResetD, Close(-30000), ResetD >>,
    << Close(-30000), ResetD, Close(-30000), ResetD, Close(10000), Close(10000) >> }

RECURSIVE RunTracker(_, _)
RunTracker(t, ops) ==
  IF ops = << >> THEN t
  ELSE LET o  == Head(ops)
           t1 == IF o.op = "close" THEN record_trade_closed(t, o.pnl, 0) ELSE reset_daily(t)
       IN  RunTracker(t1, Tail(ops))

EvalClocks == {0, 30, 60}

InitEval ==
  /\ \E i \in 1..Len(RiskConfigs), h \in TrackerHistories, n \in 0..MaxOpen :
       /\ rm = [NewRiskManager(StartingEquity, RiskConfigs[i]) EXCEPT !.open_positions = n]
       /\ tracker = RunTracker(NewTracker(StartingEquity, MergeConfig(RISK_DEFAULTS, RiskConfigs[i])), h)
  /\ clock \in EvalClocks
  /\ \E s \in Signals, a \in AtrValues, t \in EvalTimes :
       fn = [pc |-> "ready", signal |-> s, atr |-> a, time |-> t]
  /\ last = Op("init")
  /\ om = << >>
  /\ eng = [pc |-> "idle"]

EvaluateCall ==
  /\ fn.pc = "ready"
  /\ EvaluateStep(fn.signal, fn.atr, fn.time)
  /\ fn' = [fn EXCEPT !.pc = "done"]

NextEval == EvaluateCall

SpecEval == InitEval /\ [][NextEval]_vars

(***************************************************************************)
(* Intraday trading window.  Evaluate's trading_window argument and the    *)
(* check behind it are modelled from the specification and from the calls  *)
(* made by tests/test_risk/test_trading_hours.py and                       *)
(* SignalGenerator.on_bar: within step 2, after the exchange-hours rules,  *)
(* a configured window [start_et, end_et) is tested against the           *)
(* evaluation time converted to Eastern time (Central + 1 hour).           *)
(***************************************************************************)
NoWindow == [present |-> FALSE, start_et |-> 0, end_et |-> 0]

TradingWindow(start_et, end_et) == [present |-> TRUE, start_et |-> start_et, end_et |-> end_et]

ToEastern(now) ==
  IF now.tz = "ET"
  THEN [weekday |-> now.weekday, minute |-> now.minute]
  ELSE IF now.minute + 60 < 1440
       THEN [weekday |-> now.weekday, minute |-> now.minute + 60]
       ELSE [weekday |-> (now.weekday + 1) % 7, minute |-> now.minute + 60 - 1440]

check_trading_window_end_inclusive(trading_window, now) ==
  LET et == ToEastern(now).minute
  IN  IF trading_window.start_et <= et /\ et <= trading_window.end_et
      THEN [ok |-> TRUE, reason |-> ""]
      ELSE [ok |-> FALSE, reason |-> "Outside trading window"]

check_trading_window(trading_window, now) ==
  LET et == ToEastern(now).minute
  IN  IF trading_window.start_et <= et /\ et < trading_window.end_et
      THEN [ok |-> TRUE, reason |-> ""]
      ELSE [ok |-> FALSE, reason |-> "Outside trading window"]

evaluate_in_window(r, t, signal, atr, current_time, trading_window, now) ==
  LET ct    == can_trade(t, now)
      hours == check_trading_hours(r.config, current_time)
  IN  IF ~ct.ok THEN reject(signal, ct.reason, "DAILY_LIMIT_CHECK")
      ELSE IF hours.raised THEN Raised(signal, hours.reason)
      ELSE IF ~hours.ok THEN reject(signal, hours.reason, "TRADING_HOURS_CHECK")
      ELSE IF trading_window.present /\ ~check_trading_window(trading_window, current_time).ok
      THEN reject(signal, check_trading_window(trading_window, current_time).reason, "TRADING_WINDOW_CHECK")
      ELSE evaluate_positions(r, signal, atr)

WindowTimes ==
  { DT("ET", 2, 10, 30), DT("ET", 2, 12, 0), DT("ET", 2, 13, 59), DT("ET", 2, 10, 0),
    DT("ET", 2, 9, 35), DT("ET", 2, 14, 15), DT("ET", 2, 14, 0), DT("ET", 2, 20, 0),
    DT("CT", 2, 9, 30), DT("CT", 2, 8, 30), DT("CT", 2, 13, 0), DT("CT", 2, 16, 30),
    DT("ET", 5, 11, 0), DT("CT", 2, 23, 30) }

Windows == { NoWindow, TradingWindow(10 * 60, 14 * 60) }

InitWindow ==
  /\ \E h \in TrackerHistories, n \in 0..MaxOpen :
       /\ rm = [NewRiskManager(StartingEquity, << >>) EXCEPT !.open_positions = n]
       /\ tracker = RunTracker(NewTracker(StartingEquity, RISK_DEFAULTS), h)
  /\ clock = 0
  /\ \E s \in Signals, t \in WindowTimes, w \in Windows :
       fn = [pc |-> "ready", signal |-> s, atr |-> 300, time |-> t, window |-> w, result |-> NoResult]
  /\ last = Op("init")
  /\ om = << >>
  /\ eng = [pc |-> "idle"]

EvaluateInWindow ==
  /\ fn.pc = "ready"
  /\ LET res == evaluate_in_window(rm, tracker, fn.signal, fn.atr, fn.time, fn.window, clock)
     IN  /\ rm' = [rm EXCEPT !.events = @ \o res.events]
         /\ fn' = [fn EXCEPT !.pc = "done", !.result = res]
  /\ last' = Op("evaluate")
  /\ UNCHANGED <<tracker, clock, om, eng>>

NextWindow == EvaluateInWindow

SpecWindow == InitWindow /\ [][NextWindow]_vars

SizerEquity == {-100, 0, 1000, 10000}

SizerStopTicks == {-400, 0, 1600, 1650, 6000, 40000}

SizerTickValue == {0, 125, 500}

SizerRiskPct == {-10, 0, 100, 150}

SizerMaxSize == {0, 2, 100}

InitSizer ==
  /\ \E e \in SizerEquity, st \in SizerStopTicks, tv \in SizerTickValue, pct \in SizerRiskPct, mx \in SizerMaxSize :
       fn = [pc |-> "ready", account_equity |-> e, stop_distance_ticks |-> st, tick_value |-> tv, max_risk_pct |-> pct, max_position_size |-> mx, size |-> 0]
  /\ rm = NewRiskManager(StartingEquity, RiskConfigs[1])
  /\ tracker = NewTracker(StartingEquity, RISK_DEFAULTS)
  /\ clock = 0
  /\ last = Op("init")
  /\ om = << >>
  /\ eng = [pc |-> "idle"]

SizeCall ==
  /\ fn.pc = "ready"
  /\ fn' = [fn EXCEPT !.pc = "done", !.size = calculate_position_size(fn.account_equity, fn.stop_distance_ticks, fn.tick_value, fn.max_risk_pct, fn.max_position_size)]
  /\ UNCHANGED <<tracker, rm, clock, last, om, eng>>

NextSizer == SizeCall

SpecSizer == InitSizer /\ [][NextSizer]_vars

(***************************************************************************)
(* Paper executor                                                          *)
(***************************************************************************)
Commission == CommissionPerSide * 2

(* slip_price = max(0, gauss(mean, std)) * tick_size, always >= 0 *)
apply_slippage(price, direction, is_entry, slip_price) ==
  LET p == IF is_entry
           THEN IF direction = "LONG" THEN price + slip_price ELSE price - slip_price
           ELSE IF direction = "LONG" THEN price - slip_price ELSE price + slip_price
  IN  round_to_tick(p, TickSize)

execute_entry(risk_result, slip_price, now) ==
  LET signal     == risk_result.signal
      fill_price == apply_slippage(signal.entry_price, signal.direction, TRUE, slip_price)
  IN  [ strategy          |-> signal.strategy,
        direction         |-> signal.direction,
        entry_price       |-> fill_price,
        exit_price        |-> None,
        stop_loss         |-> signal.stop_loss,
        take_profit       |-> signal.take_profit,
        quantity          |-> risk_result.position_size,
        entry_time        |-> now,
        exit_time         |-> None,
        status            |-> "OPEN",
        pnl_ticks         |-> None,
        pnl_dollars       |-> None,
        risk_reward_actual |-> << >>,
        commission        |-> Commission * risk_result.position_size,
        slippage_ticks    |-> (Abs(fill_price - signal.entry_price) * 100) \div TickSize,
        notes             |-> "" ]

(* Trade.calculate_pnl: pnl_ticks in hundredths of a tick, pnl_dollars in cents *)
calculate_pnl(trade) ==
  IF trade.exit_price = None THEN trade
  ELSE LET diff  == IF trade.direction = "LONG" THEN trade.exit_price - trade.entry_price
                    ELSE trade.entry_price - trade.exit_price
           ticks == (diff * 100) \div TickSize
       IN  [trade EXCEPT !.pnl_ticks = ticks,
                         !.pnl_dollars = ((ticks * TickValue * trade.quantity) \div 100) - trade.commission]

(* Trade.calculate_risk_reward: the ratio reward / risk kept as a pair *)
calculate_risk_reward(trade) ==
  IF trade.exit_price = None THEN trade
  ELSE LET risk   == IF trade.direction = "LONG" THEN trade.entry_price - trade.stop_loss
                     ELSE trade.stop_loss - trade.entry_price
           reward == IF trade.direction = "LONG" THEN trade.exit_price - trade.entry_price
                     ELSE trade.entry_price - trade.exit_price
       IN  IF risk > 0 THEN [trade EXCEPT !.risk_reward_actual = <<reward, risk>>] ELSE trade

execute_exit_no_time(position, exit_price, reason, slip_price, now) ==
  LET trade      == position.trade
      fill_price == apply_slippage(exit_price, trade.direction, FALSE, slip_price)
      t1 == [trade EXCEPT !.exit_price = fill_price, !.status = "CLOSED", !.notes = reason]
  IN  calculate_risk_reward(calculate_pnl(t1))

execute_exit(position, exit_price, reason, slip_price, now) ==
  LET trade      == position.trade
      fill_price == apply_slippage(exit_price, trade.direction, FALSE, slip_price)
      t1 == [trade EXCEPT !.exit_price = fill_price, !.exit_time = now, !.status = "CLOSED", !.notes = reason]
  IN  calculate_risk_reward(calculate_pnl(t1))

(* _apply_slippage as a pure function of the requested price, the side and *)
(* the slippage draw.  Requested prices are floats the executor takes as   *)
(* given (a bar's open or close, a stop, a target): on and off the tick    *)
(* grid.  Draws are max(0, gauss) * tick_size: any non-negative amount.    *)
FillPrices == {499990, 500000, 500010, 500015, 500025, 500040}

FillSlips == {0, 5, 12, 13, 25, 37}

InitFill ==
  /\ \E p \in FillPrices, d \in {"LONG", "SHORT"}, e \in BOOLEAN, s \in FillSlips :
       fn = [pc |-> "ready", price |-> p, direction |-> d, is_entry |-> e, slip_price |-> s, fill |-> None]
  /\ rm = NewRiskManager(StartingEquity, RiskConfigs[1])
  /\ tracker = NewTracker(StartingEquity, RISK_DEFAULTS)
  /\ clock = 0
  /\ last = Op("init")
  /\ om = << >>
  /\ eng = [pc |-> "idle"]

FillCall ==
  /\ fn.pc = "ready"
  /\ fn' = [fn EXCEPT !.pc = "done", !.fill = apply_slippage(fn.price, fn.direction, fn.is_entry, fn.slip_price)]
  /\ UNCHANGED <<tracker, rm, clock, last, om, eng>>

NextFill == FillCall

SpecFill == InitFill /\ [][NextFill]_vars

(***************************************************************************)
(* Position and order manager                                              *)
(***************************************************************************)
AtrForTrailing == 300

TrailingAtrMultiple == 15

ActivationRMultiple == 10

NewPosition(trade) ==
  [ trade              |-> trade,
    current_price      |-> trade.entry_price,
    unrealized_pnl     |-> 0,
    trailing_stop      |-> None,
    trailing_activated |-> FALSE,
    scale_out_done     |-> FALSE,
    original_quantity  |-> trade.quantity ]

update_price(position, price) ==
  LET diff  == IF position.trade.direction = "LONG" THEN price - position.trade.entry_price
               ELSE position.trade.entry_price - price
      ticks == (diff * 100) \div TickSize
  IN  [position EXCEPT !.current_price = price,
                       !.unrealized_pnl = (ticks * TickValue * position.trade.quantity) \div 100]

(* position.trailing_stop or position.trade.stop_loss *)
effective_stop(position) ==
  IF position.trailing_stop # None /\ position.trailing_stop # 0
  THEN position.trailing_stop ELSE position.trade.stop_loss

should_stop_out(position) ==
  IF position.trade.direction = "LONG"
  THEN position.current_price <= effective_stop(position)
  ELSE position.current_price >= effective_stop(position)

should_take_profit(position) ==
  IF position.trade.take_profit = None THEN FALSE
  ELSE IF position.trade.direction = "LONG"
       THEN position.current_price >= position.trade.take_profit
       ELSE position.current_price <= position.trade.take_profit

(* stop_loss.update_trailing_stop: <<new_stop, activated>> *)
update_trailing_stop(entry_price, current_price, current_stop, direction, atr, trailing_atr_multiple, activation_r_multiple, tick_size) ==
  LET initial_risk   == IF direction = "LONG" THEN entry_price - current_stop ELSE current_stop - entry_price
      current_profit == IF direction = "LONG" THEN current_price - entry_price ELSE entry_price - current_price
      trail_distance == atr * trailing_atr_multiple
      new_stop == IF direction = "LONG"
                  THEN round_to_tick((current_price * 10 - trail_distance) \div 10, tick_size)
                  ELSE round_to_tick((current_price * 10 + trail_distance) \div 10, tick_size)
  IN  IF atr <= 0 THEN <<current_stop, FALSE>>
      ELSE IF initial_risk <= 0 THEN <<current_stop, FALSE>>
      ELSE IF current_profit * 10 < initial_risk * activation_r_multiple THEN <<current_stop, FALSE>>
      ELSE IF direction = "LONG"
           THEN IF new_stop > current_stop THEN <<new_stop, TRUE>> ELSE <<current_stop, TRUE>>
           ELSE IF new_stop < current_stop THEN <<new_stop, TRUE>> ELSE <<current_stop, TRUE>>

om_update_trailing_stop(position, bar) ==
  LET res == update_trailing_stop(position.trade.entry_price, bar.close, effective_stop(position), position.trade.direction, AtrForTrailing, TrailingAtrMultiple, ActivationRMultiple, TickSize)
  IN  IF res[2] THEN [position EXCEPT !.trailing_stop = res[1], !.trailing_activated = TRUE]
      ELSE position

get_primary_target(position) ==
  IF ~position.scale_out_done /\ position.trade.quantity > 1 THEN position.trade.take_profit ELSE None

should_scale_out(position, bar) ==
  IF position.scale_out_done THEN FALSE
  ELSE IF position.trade.quantity <= 1 THEN FALSE
  ELSE IF get_primary_target(position) = None THEN FALSE
  ELSE IF position.trade.direction = "LONG" THEN bar.close >= get_primary_target(position)
       ELSE bar.close <= get_primary_target(position)

execute_scale_out_ceil(position) ==
  LET primary   == position.trade.take_profit
      scale_qty == (position.trade.quantity + 1) \div 2
      diff      == IF position.trade.direction = "LONG" THEN primary - position.trade.entry_price
                   ELSE position.trade.entry_price - primary
      pnl_ticks == (diff * 100) \div TickSize
  IN  IF primary = None \/ scale_qty <= 0 THEN [position |-> position, recorded |-> FALSE, pnl_dollars |-> 0]
      ELSE [ position |-> [position EXCEPT !.trade.quantity = @ - scale_qty,
                                           !.scale_out_done = TRUE,
                                           !.trailing_stop = position.trade.entry_price,
                                           !.trailing_activated = TRUE],
             recorded |-> TRUE,
             pnl_dollars |-> (pnl_ticks * TickValue * scale_qty) \div 100 ]

(* _execute_scale_out: the position, whether a partial P&L was recorded,   *)
(* and that P&L                                                            *)
execute_scale_out(position) ==
  LET primary   == position.trade.take_profit
      scale_qty == position.trade.quantity \div 2
      diff      == IF position.trade.direction = "LONG" THEN primary - position.trade.entry_price
                   ELSE position.trade.entry_price - primary
      pnl_ticks == (diff * 100) \div TickSize
  IN  IF primary = None \/ scale_qty <= 0 THEN [position |-> position, recorded |-> FALSE, pnl_dollars |-> 0]
      ELSE [ position |-> [position EXCEPT !.trade.quantity = @ - scale_qty,
                                           !.scale_out_done = TRUE,
                                           !.trailing_stop = position.trade.entry_price,
                                           !.trailing_activated = TRUE],
             recorded |-> TRUE,
             pnl_dollars |-> (pnl_ticks * TickValue * scale_qty) \div 100 ]

(* TradeRecorder: configured or not, and the trades it was handed *)
(* TradeRecorder: today_trades is _today_trades; faults is what the next    *)
(* session commits will do, in order (TRUE: the commit raises; none left:  *)
(* it succeeds); rows are the trades committed, errors the failures logged *)
NoRecorder == [configured |-> FALSE, sqlite |-> FALSE, today_trades |-> << >>, faults |-> << >>, rows |-> << >>, errors |-> 0]

NewRecorder == [configured |-> TRUE, sqlite |-> FALSE, today_trades |-> << >>, faults |-> << >>, rows |-> << >>, errors |-> 0]

SqliteRecorder(faults) == [configured |-> TRUE, sqlite |-> TRUE, today_trades |-> << >>, faults |-> faults, rows |-> << >>, errors |-> 0]

record_trade(rec, trade) ==
  IF ~rec.configured THEN rec
  ELSE LET appended == [rec EXCEPT !.today_trades = Append(@, trade)]
       IN  IF ~rec.sqlite THEN appended
           ELSE IF rec.faults # << >> /\ Head(rec.faults)
           THEN [appended EXCEPT !.faults = Tail(@), !.errors = @ + 1]
           ELSE [appended EXCEPT !.faults = IF @ = << >> THEN @ ELSE Tail(@), !.rows = Append(@, trade)]

NewOmState(r, t, rec, positions) ==
  [rm |-> r, tracker |-> t, recorder |-> rec, open |-> positions, closed |-> << >>]

(* The order manager together with the risk manager, tracker and recorder  *)
(* it calls: st = [rm, tracker, recorder, open, closed], open the list     *)
(* being built, closed the trades returned.                                *)
close_position_stays_open(st, position, exit_price, reason, slip_price, now) ==
  LET trade == execute_exit(position, exit_price, reason, slip_price, now)
  IN  [st EXCEPT !.rm.open_positions = Max(0, @ - 1),
                 !.tracker = record_trade_closed(@, trade.pnl_dollars, now),
                 !.recorder = record_trade(@, trade),
                 !.open = Append(@, [position EXCEPT !.trade = trade]),
                 !.closed = Append(@, trade)]

close_position_no_decrement(st, position, exit_price, reason, slip_price, now) ==
  LET trade == execute_exit(position, exit_price, reason, slip_price, now)
  IN  [st EXCEPT !.tracker = record_trade_closed(@, trade.pnl_dollars, now),
                 !.recorder = record_trade(@, trade),
                 !.closed = Append(@, trade)]

close_position_rolled_back_on_journal_failure(st, position, exit_price, reason, slip_price, now) ==
  LET trade == execute_exit(position, exit_price, reason, slip_price, now)
  IN  IF st.recorder.sqlite /\ st.recorder.faults # << >> /\ Head(st.recorder.faults)
      THEN [st EXCEPT !.recorder = record_trade(@, trade)]
      ELSE [st EXCEPT !.rm.open_positions = Max(0, @ - 1),
                      !.tracker = record_trade_closed(@, trade.pnl_dollars, now),
                      !.recorder = record_trade(@, trade),
                      !.closed = Append(@, trade)]

close_position(st, position, exit_price, reason, slip_price, now) ==
  LET trade == execute_exit(position, exit_price, reason, slip_price, now)
  IN  [st EXCEPT !.rm.open_positions = Max(0, @ - 1),
                 !.tracker = record_trade_closed(@, trade.pnl_dollars, now),
                 !.recorder = record_trade(@, trade),
                 !.closed = Append(@, trade)]

on_bar_position_target_first(st, position, bar, slip_price, now) ==
  LET p == om_update_trailing_stop(update_price(position, bar.close), bar)
  IN  IF should_take_profit(p) /\ ~should_scale_out(p, bar)
      THEN close_position(st, p, p.trade.take_profit, "take_profit", slip_price, now)
      ELSE IF should_stop_out(p)
      THEN close_position(st, p, effective_stop(p), "stop_loss", slip_price, now)
      ELSE IF should_scale_out(p, bar)
      THEN LET so == execute_scale_out(p)
           IN  [st EXCEPT !.tracker = IF so.recorded THEN record_trade_closed(@, so.pnl_dollars, now) ELSE @,
                          !.open = Append(@, so.position)]
      ELSE [st EXCEPT !.open = Append(@, p)]

on_bar_position_scale_out_as_close(st, position, bar, slip_price, now) ==
  LET p == om_update_trailing_stop(update_price(position, bar.close), bar)
  IN  IF should_stop_out(p)
      THEN close_position(st, p, effective_stop(p), "stop_loss", slip_price, now)
      ELSE IF should_scale_out(p, bar)
      THEN LET so == execute_scale_out(p)
           IN  [st EXCEPT !.tracker = IF so.recorded THEN record_trade_closed(@, so.pnl_dollars, now) ELSE @,
                          !.rm.open_positions = Max(0, @ - 1),
                          !.open = Append(@, so.position)]
      ELSE IF should_take_profit(p)
      THEN close_position(st, p, p.trade.take_profit, "take_profit", slip_price, now)
      ELSE [st EXCEPT !.open = Append(@, p)]

on_bar_position(st, position, bar, slip_price, now) ==
  LET p == om_update_trailing_stop(update_price(position, bar.close), bar)
  IN  IF should_stop_out(p)
      THEN close_position(st, p, effective_stop(p), "stop_loss", slip_price, now)
      ELSE IF should_scale_out(p, bar)
      THEN LET so == execute_scale_out(p)
           IN  [st EXCEPT !.tracker = IF so.recorded THEN record_trade_closed(@, so.pnl_dollars, now) ELSE @,
                          !.open = Append(@, so.position)]
      ELSE IF should_take_profit(p)
      THEN close_position(st, p, p.trade.take_profit, "take_profit", slip_price, now)
      ELSE [st EXCEPT !.open = Append(@, p)]

RECURSIVE on_bar_loop(_, _, _, _, _, _)
on_bar_loop(st, positions, i, bar, slips, now) ==
  IF i > Len(positions) THEN st
  ELSE on_bar_loop(on_bar_position(st, positions[i], bar, slips[i], now), positions, i + 1, bar, slips, now)

(* OrderManager.on_bar *)
on_bar(r, t, rec, positions, bar, slips, now) ==
  on_bar_loop(NewOmState(r, t, rec, << >>), positions, 1, bar, slips, now)

RECURSIVE force_close_loop_at_mark(_, _, _, _, _, _)
force_close_loop_at_mark(st, positions, i, price, slips, now) ==
  IF i > Len(positions) THEN st
  ELSE force_close_loop_at_mark(close_position(st, positions[i], positions[i].current_price, "force_close", slips[i], now), positions, i + 1, price, slips, now)

RECURSIVE force_close_loop(_, _, _, _, _, _)
force_close_loop(st, positions, i, price, slips, now) ==
  IF i > Len(positions) THEN st
  ELSE force_close_loop(close_position(st, positions[i], price, "force_close", slips[i], now), positions, i + 1, price, slips, now)

(* OrderManager.force_close_all *)
force_close_all(r, t, rec, positions, price, slips, now) ==
  force_close_loop(NewOmState(r, t, rec, << >>), positions, 1, price, slips, now)

open_position_counts_skipped(st, result, slip_price, skip, now) ==
  IF skip THEN [st EXCEPT !.rm.open_positions = @ + 1]
  ELSE [st EXCEPT !.open = Append(@, NewPosition(execute_entry(result, slip_price, now))),
                  !.rm.open_positions = @ + 1]

(* OrderManager._open_position for one approved result; skip is the        *)
(* executor's probabilistic fill skip                                      *)
open_position(st, result, slip_price, skip, now) ==
  IF skip THEN st
  ELSE [st EXCEPT !.open = Append(@, NewPosition(execute_entry(result, slip_price, now))),
                  !.rm.open_positions = @ + 1]

RECURSIVE process_signals_loop(_, _, _, _, _, _)
process_signals_loop(st, results, i, slips, skips, now) ==
  IF i > Len(results) THEN st
  ELSE IF results[i].decision # "APPROVED"
       THEN process_signals_loop(st, results, i + 1, slips, skips, now)
       ELSE process_signals_loop(open_position(st, results[i], slips[i], skips[i], now), results, i + 1, slips, skips, now)

(* OrderManager.process_signals *)
process_signals(r, t, positions, results, slips, skips, now) ==
  process_signals_loop(NewOmState(r, t, NoRecorder, positions), results, 1, slips, skips, now)

RECURSIVE SumUnrealized(_, _)
SumUnrealized(positions, i) ==
  IF i > Len(positions) THEN 0 ELSE positions[i].unrealized_pnl + SumUnrealized(positions, i + 1)

get_total_unrealized_pnl(positions) == SumUnrealized(positions, 1)

(***************************************************************************)
(* Order manager driven directly: process_signals, on_bar and              *)
(* force_close_all in any order.  eng.returned is the list the last call   *)
(* returned, eng.price the bar close or forced price it was given; the     *)
(* wall clock read for entry and exit times moves on after every           *)
(* process_signals call.                                                   *)
(***************************************************************************)
SlipValues == {0, 25}

MaxOmCalls == 1

MaxOmOpen == 2

OmSig(name, d, e, s, tp) ==
  [strategy |-> name, direction |-> d, entry_price |-> e, stop_loss |-> s, take_profit |-> tp]

OmLong == OmSig("mean_reversion", "LONG", 500000, 499600, 501200)

OmShort == OmSig("breakout", "SHORT", 500000, 500400, 499200)

OmNoTarget == OmSig("mean_reversion", "LONG", 500000, 499600, None)

OmFlat == OmSig("mean_reversion", "LONG", 500000, 499600, 499600)

OmCalls ==
  { << Approved(OmLong, 2) >>,
    << Approved(OmShort, 1) >>,
    << Approved(OmLong, 3), Approved(OmShort, 2) >>,
    << Approved(OmNoTarget, 2) >>,
    << Approved(OmFlat, 1) >>,
    << reject(OmLong, "Max positions reached", "MAX_POSITIONS"), Approved(OmShort, 1) >> }

OmCloses == {499200, 499600, 500000, 501000, 501200}

OmBar(close) == [open |-> close, close |-> close, timestamp |-> DT("CT", 2, 10, 0)]

ForcePrices == {500000, 500500}

is_approved(res) == res.decision = "APPROVED"

InitOM ==
  /\ rm = NewRiskManager(StartingEquity, RiskConfigs[1])
  /\ tracker = NewTracker(StartingEquity, MergeConfig(RISK_DEFAULTS, RiskConfigs[1]))
  /\ clock = 0
  /\ last = Op("init")
  /\ om = << >>
  /\ eng = [pc |-> "om", op |-> "init", price |-> 0, returned |-> << >>, calls |-> 0, recorder |-> NoRecorder]
  /\ fn = [pc |-> "idle"]

(* the same order manager constructed with a TradeRecorder *)
InitOMJournal ==
  /\ rm = NewRiskManager(StartingEquity, RiskConfigs[1])
  /\ tracker = NewTracker(StartingEquity, MergeConfig(RISK_DEFAULTS, RiskConfigs[1]))
  /\ clock = 0
  /\ last = Op("init")
  /\ om = << >>
  /\ eng = [pc |-> "om", op |-> "init", price |-> 0, returned |-> << >>, calls |-> 0, recorder |-> NewRecorder]
  /\ fn = [pc |-> "idle"]

OmProcessSignals(results, slips) ==
  /\ eng.pc = "om"
  /\ eng.calls < MaxOmCalls
  /\ Len(om) + Len(SelectSeq(results, is_approved)) <= MaxOmOpen
  /\ LET st == process_signals(rm, tracker, om, results, slips, [i \in 1..Len(results) |-> FALSE], clock)
     IN  /\ rm' = st.rm
         /\ om' = st.open
         /\ eng' = [eng EXCEPT !.op = "process_signals", !.price = 0, !.calls = @ + 1,
                               !.returned = [i \in 1..(Len(st.open) - Len(om)) |-> st.open[Len(om) + i].trade]]
  /\ clock' = clock + 1
  /\ last' = Op("process_signals")
  /\ UNCHANGED <<tracker, fn>>

OmOnBar(bar, slips) ==
  /\ eng.pc = "om"
  /\ LET st == on_bar(rm, tracker, eng.recorder, om, bar, slips, clock)
     IN  /\ rm' = st.rm
         /\ tracker' = st.tracker
         /\ om' = st.open
         /\ eng' = [eng EXCEPT !.op = "on_bar", !.price = bar.close, !.returned = st.closed, !.recorder = st.recorder]
  /\ last' = Op("on_bar")
  /\ UNCHANGED <<clock, fn>>

OmForceCloseAll(price, slips) ==
  /\ eng.pc = "om"
  /\ LET st == force_close_all(rm, tracker, eng.recorder, om, price, slips, clock)
     IN  /\ rm' = st.rm
         /\ tracker' = st.tracker
         /\ om' = << >>
         /\ eng' = [eng EXCEPT !.op = "force_close_all", !.price = price, !.returned = st.closed, !.recorder = st.recorder]
  /\ last' = Op("force_close_all")
  /\ UNCHANGED <<clock, fn>>

NextOM ==
  \/ \E results \in OmCalls, slips \in [1..2 -> SlipValues] : OmProcessSignals(results, slips)
  \/ \E c \in OmCloses, slips \in [1..Len(om) -> SlipValues] : OmOnBar(OmBar(c), slips)
  \/ \E price \in ForcePrices, slips \in [1..Len(om) -> SlipValues] : OmForceCloseAll(price, slips)

SpecOM == InitOM /\ [][NextOM]_vars

SpecOMJournal == InitOMJournal /\ [][NextOM]_vars

(* The order manager with a recorder writing to SQLite, whose commits may  *)
(* fail: every pattern of outcomes for the next two commits                *)
JournalFaults == [1..2 -> BOOLEAN]

OmFaultyCalls == { << Approved(OmLong, 3), Approved(OmShort, 2) >>, << Approved(OmLong, 1), Approved(OmLong, 1) >> }

FaultyCloses == {499600, 501200}

FaultyForcePrices == {500000}

InitOMJournalFaulty ==
  /\ rm = NewRiskManager(StartingEquity, RiskConfigs[1])
  /\ tracker = NewTracker(StartingEquity, MergeConfig(RISK_DEFAULTS, RiskConfigs[1]))
  /\ clock = 0
  /\ last = Op("init")
  /\ om = << >>
  /\ \E faults \in JournalFaults :
       eng = [pc |-> "om", op |-> "init", price |-> 0, returned |-> << >>, calls |-> 0, recorder |-> SqliteRecorder(faults)]
  /\ fn = [pc |-> "idle"]

NextOMJournalFaulty ==
  \/ \E results \in OmFaultyCalls, slips \in [1..2 -> SlipValues] : OmProcessSignals(results, slips)
  \/ \E c \in FaultyCloses, slips \in [1..Len(om) -> SlipValues] : OmOnBar(OmBar(c), slips)
  \/ \E price \in FaultyForcePrices, slips \in [1..Len(om) -> SlipValues] : OmForceCloseAll(price, slips)

SpecOMJournalFaulty == InitOMJournalFaulty /\ [][NextOMJournalFaulty]_vars

(* signals carrying a primary/secondary target pair: the take_profit field *)
(* is the primary, the secondary, or left unset                            *)
DualPrimary == 501200

DualSecondary == 502400

OmDual(tp) ==
  [strategy |-> "mean_reversion", direction |-> "LONG", entry_price |-> 500000, stop_loss |-> 499600,
   take_profit |-> tp, take_profit_primary |-> DualPrimary, take_profit_secondary |-> DualSecondary]

OmDualCalls ==
  { << Approved(OmDual(tp), q) >> : tp \in {DualPrimary, DualSecondary, None}, q \in {2, 3} }

DualCloses == {500000, 501200, 501800, 502400}

NextOMDual ==
  \/ \E results \in OmDualCalls, slips \in [1..2 -> SlipValues] : OmProcessSignals(results, slips)
  \/ \E c \in DualCloses, slips \in [1..Len(om) -> SlipValues] : OmOnBar(OmBar(c), slips)
  \/ \E price \in FaultyForcePrices, slips \in [1..Len(om) -> SlipValues] : OmForceCloseAll(price, slips)

SpecOMDual == InitOM /\ [][NextOMDual]_vars

(* The order manager over an executor with fill_probability < 1: any       *)
(* approved result may be skipped by execute_entry.  eng.skipped counts    *)
(* the approved results the last process_signals did not fill.             *)
InitOMSkips ==
  /\ rm = NewRiskManager(StartingEquity, RiskConfigs[1])
  /\ tracker = NewTracker(StartingEquity, MergeConfig(RISK_DEFAULTS, RiskConfigs[1]))
  /\ clock = 0
  /\ last = Op("init")
  /\ om = << >>
  /\ eng = [pc |-> "om", op |-> "init", price |-> 0, returned |-> << >>, calls |-> 0, recorder |-> NoRecorder, skipped |-> 0]
  /\ fn = [pc |-> "idle"]

OmProcessSignalsSkips(results, slips, skips) ==
  /\ eng.pc = "om"
  /\ eng.calls < MaxOmCalls
  /\ Len(om) + Len(SelectSeq(results, is_approved)) <= MaxOmOpen
  /\ LET st == process_signals(rm, tracker, om, results, slips, skips, clock)
     IN  /\ rm' = st.rm
         /\ om' = st.open
         /\ eng' = [eng EXCEPT !.op = "process_signals", !.price = 0, !.calls = @ + 1,
                               !.returned = [i \in 1..(Len(st.open) - Len(om)) |-> st.open[Len(om) + i].trade],
                               !.skipped = Len(SelectSeq(results, is_approved)) - (Len(st.open) - Len(om))]
  /\ clock' = clock + 1
  /\ last' = Op("process_signals")
  /\ UNCHANGED <<tracker, fn>>

NextOMSkips ==
  \/ \E results \in OmCalls, slips \in [1..2 -> SlipValues], skips \in [1..2 -> BOOLEAN] : OmProcessSignalsSkips(results, slips, skips)
  \/ \E c \in OmCloses, slips \in [1..Len(om) -> SlipValues] : OmOnBar(OmBar(c), slips)
  \/ \E price \in ForcePrices, slips \in [1..Len(om) -> SlipValues] : OmForceCloseAll(price, slips)

SpecOMSkips == InitOMSkips /\ [][NextOMSkips]_vars

(***************************************************************************)
(* Replay engine: BacktestEngine.run, one step per phase of the bar loop   *)
(***************************************************************************)
MaxBars == 3

Strategies == << "mean_reversion", "breakout" >>

NoShape == [direction |-> "", stop |-> 0, target |-> 0]

(* what each strategy may propose on a bar, as offsets from the bar's      *)
(* close, or nothing                                                       *)
SignalShapes ==
  << { NoShape, [direction |-> "LONG",  stop |-> -1500, target |-> 3000] },
     { NoShape, [direction |-> "SHORT", stop |-> 400,   target |-> -800] } >>

strategy_on_bar(name, bar, shape) ==
  [strategy |-> name, direction |-> shape.direction, entry_price |-> bar.close, stop_loss |-> bar.close + shape.stop, take_profit |-> bar.close + shape.target]

BarOpens == {500000}

BarCloses == {498500, 500000, 503000}

BarTimes == { DT("CT", 2, 10, 0) }

Bars == [open : BarOpens, close : BarCloses, timestamp : BarTimes]

NoBar == [open |-> 0, close |-> 0, timestamp |-> NoTime]

NoSnapshot == [atr_14 |-> 0, present |-> FALSE]

Snapshots == { NoSnapshot, [atr_14 |-> 750, present |-> TRUE] }

ReplayConfigs == << << >> >>

(* backtest_risk_config.setdefault("cooldown_after_loss", 0) *)
backtest_risk_config(risk_config) ==
  [k \in DOMAIN risk_config \cup {"cooldown_after_loss"} |->
     IF k \in DOMAIN risk_config THEN risk_config[k] ELSE 0]

(* SignalGenerator.on_bar: every strategy in order, each proposal through  *)
(* the risk gate; st = [rm, results].  The strategies carry no intraday    *)
(* trading window.                                                         *)
RECURSIVE generator_loop(_, _, _, _, _, _, _)
generator_loop(st, t, bar, snapshot, shapes, i, now) ==
  IF i > Len(Strategies) THEN st
  ELSE IF shapes[i] = NoShape THEN generator_loop(st, t, bar, snapshot, shapes, i + 1, now)
  ELSE LET signal == strategy_on_bar(Strategies[i], bar, shapes[i])
           atr    == IF snapshot.atr_14 = None \/ snapshot.atr_14 = 0 THEN 300 ELSE snapshot.atr_14
           res    == evaluate(st.rm, t, signal, atr, bar.timestamp, now)
       IN  generator_loop([rm |-> [st.rm EXCEPT !.events = @ \o res.events], results |-> Append(st.results, res)], t, bar, snapshot, shapes, i + 1, now)

generator_on_bar(r, t, bar, snapshot, shapes, now) ==
  IF ~snapshot.present THEN [rm |-> r, results |-> << >>]
  ELSE generator_loop([rm |-> r, results |-> << >>], t, bar, snapshot, shapes, 1, now)

is_rejected(res) == res.decision = "REJECTED"

not_rejected(res) == res.decision # "REJECTED"

reprice_keeps_signal_price(results, bar) ==
  results

reprice(results, bar) ==
  [i \in 1..Len(results) |-> [results[i] EXCEPT !.signal.entry_price = bar.open]]

NewResults ==
  [trades |-> << >>, signals_generated |-> 0, signals_rejected |-> 0, bars_processed |-> 0]

InitReplay ==
  /\ \E i \in 1..Len(ReplayConfigs) :
       /\ rm = NewRiskManager(StartingEquity, backtest_risk_config(ReplayConfigs[i]))
       /\ tracker = NewTracker(StartingEquity, MergeConfig(RISK_DEFAULTS, backtest_risk_config(ReplayConfigs[i])))
  /\ clock = 0
  /\ last = Op("init")
  /\ om = << >>
  /\ eng = [pc |-> "fill", bar |-> NoBar, snapshot |-> NoSnapshot, pending |-> << >>, results |-> NewResults, opened |-> 0]
  /\ fn = [pc |-> "idle"]

(* Phase 1: the next bar arrives; pending results are re-priced to its     *)
(* open and filled                                                         *)
FillPhase(bar, slips) ==
  /\ eng.pc = "fill"
  /\ eng.results.bars_processed < MaxBars
  /\ LET st == process_signals(rm, tracker, om, reprice(eng.pending, bar), slips, [i \in 1..Len(eng.pending) |-> FALSE], clock)
     IN  /\ rm' = st.rm
         /\ om' = st.open
         /\ eng' = [eng EXCEPT !.pc = "exit", !.bar = bar, !.pending = << >>, !.opened = Len(st.open) - Len(om)]
  /\ last' = Op("fill")
  /\ UNCHANGED <<tracker, clock>>

(* Phase 2: exits of the open positions against this bar *)
ExitPhase(slips) ==
  /\ eng.pc = "exit"
  /\ LET st == on_bar(rm, tracker, NoRecorder, om, eng.bar, slips, clock)
     IN  /\ rm' = st.rm
         /\ tracker' = st.tracker
         /\ om' = st.open
         /\ eng' = [eng EXCEPT !.pc = "feature", !.results.trades = @ \o st.closed]
  /\ last' = Op("exit")
  /\ UNCHANGED clock

(* Phase 3: indicator_calc.update(bar) *)
FeaturePhase(snapshot) ==
  /\ eng.pc = "feature"
  /\ eng' = [eng EXCEPT !.pc = "signal", !.snapshot = snapshot]
  /\ last' = Op("feature")
  /\ UNCHANGED <<tracker, rm, clock, om>>

SignalPhase_push_first(shapes) ==
  /\ eng.pc = "signal"
  /\ LET pushed == update_unrealized(tracker, get_total_unrealized_pnl(om))
         st     == generator_on_bar(rm, pushed, eng.bar, eng.snapshot, shapes, clock)
     IN  /\ rm' = st.rm
         /\ tracker' = pushed
         /\ eng' = [eng EXCEPT !.pc = "fill",
                               !.pending = SelectSeq(st.results, not_rejected),
                               !.results.signals_generated = @ + Len(st.results),
                               !.results.signals_rejected = @ + Len(SelectSeq(st.results, is_rejected)),
                               !.results.bars_processed = @ + 1]
  /\ last' = Op("signal")
  /\ UNCHANGED <<clock, om>>

SignalPhase_queues_every_result(shapes) ==
  /\ eng.pc = "signal"
  /\ LET st == generator_on_bar(rm, tracker, eng.bar, eng.snapshot, shapes, clock)
     IN  /\ rm' = st.rm
         /\ eng' = [eng EXCEPT !.pc = "fill",
                               !.pending = st.results,
                               !.results.signals_generated = @ + Len(SelectSeq(st.results, not_rejected)),
                               !.results.signals_rejected = @ + Len(SelectSeq(st.results, is_rejected)),
                               !.results.bars_processed = @ + 1]
  /\ tracker' = update_unrealized(tracker, get_total_unrealized_pnl(om))
  /\ last' = Op("signal")
  /\ UNCHANGED <<clock, om>>

(* Phase 4: signals generated and evaluated, queued for the next bar; the  *)
(* unrealized P&L of the open positions pushed to the tracker              *)
SignalPhase(shapes) ==
  /\ eng.pc = "signal"
  /\ LET st == generator_on_bar(rm, tracker, eng.bar, eng.snapshot, shapes, clock)
     IN  /\ rm' = st.rm
         /\ eng' = [eng EXCEPT !.pc = "fill",
                               !.pending = SelectSeq(st.results, not_rejected),
                               !.results.signals_generated = @ + Len(st.results),
                               !.results.signals_rejected = @ + Len(SelectSeq(st.results, is_rejected)),
                               !.results.bars_processed = @ + 1]
  /\ tracker' = update_unrealized(tracker, get_total_unrealized_pnl(om))
  /\ last' = Op("signal")
  /\ UNCHANGED <<clock, om>>

FinishRun_leaves_open(slips) ==
  /\ eng.pc = "fill"
  /\ eng' = [eng EXCEPT !.pc = "done", !.pending = << >>]
  /\ last' = Op("finish")
  /\ UNCHANGED <<rm, tracker, om, clock>>

(* After the last bar: force-close what is still open at its close *)
FinishRun(slips) ==
  /\ eng.pc = "fill"
  /\ IF eng.results.bars_processed > 0 /\ Len(om) > 0
     THEN LET st == force_close_all(rm, tracker, NoRecorder, om, eng.bar.close, slips, clock)
          IN  /\ rm' = st.rm
              /\ tracker' = st.tracker
              /\ om' = << >>
              /\ eng' = [eng EXCEPT !.pc = "done", !.pending = << >>, !.results.trades = @ \o st.closed]
     ELSE /\ eng' = [eng EXCEPT !.pc = "done", !.pending = << >>]
          /\ UNCHANGED <<rm, tracker, om>>
  /\ last' = Op("finish")
  /\ UNCHANGED clock

ShapeChoices == { f \in [1..Len(Strategies) -> UNION {SignalShapes[i] : i \in 1..Len(Strategies)}] : \A i \in 1..Len(Strategies) : f[i] \in SignalShapes[i] }

NextReplay ==
  \/ \E bar \in Bars, slips \in [1..Len(eng.pending) -> SlipValues] : FillPhase(bar, slips) /\ UNCHANGED fn
  \/ \E slips \in [1..Len(om) -> SlipValues] : ExitPhase(slips) /\ UNCHANGED fn
  \/ \E snapshot \in Snapshots : FeaturePhase(snapshot) /\ UNCHANGED fn
  \/ \E shapes \in ShapeChoices : SignalPhase(shapes) /\ UNCHANGED fn
  \/ \E slips \in [1..Len(om) -> SlipValues] : FinishRun(slips) /\ UNCHANGED fn

SpecReplay == InitReplay /\ [][NextReplay]_vars

(* A run whose supplied risk configuration carries its own cooldown, as in *)
(* BacktestEngine(strategies, risk_config={"cooldown_after_loss": 60})     *)
CooldownReplayConfigs == << [cooldown_after_loss |-> 60] >>

InitReplayCooldown ==
  /\ \E i \in 1..Len(CooldownReplayConfigs) :
       /\ rm = NewRiskManager(StartingEquity, backtest_risk_config(CooldownReplayConfigs[i]))
       /\ tracker = NewTracker(StartingEquity, MergeConfig(RISK_DEFAULTS, backtest_risk_config(CooldownReplayConfigs[i])))
  /\ clock = 0
  /\ last = Op("init")
  /\ om = << >>
  /\ eng = [pc |-> "fill", bar |-> NoBar, snapshot |-> NoSnapshot, pending |-> << >>, results |-> NewResults, opened |-> 0]
  /\ fn = [pc |-> "idle"]

SpecReplayCooldown == InitReplayCooldown /\ [][NextReplay]_vars

(* The same engine run twice on the same bars with the same random draws:  *)
(* the first run records the bars it is given and the draws it consumes,   *)
(* the second run, started after the first has returned, is fed the same   *)
(* bars and draws in the same order.  The wall clock read by the executor  *)
(* (datetime.now) has advanced between the two calls.                      *)
MaxRerunBars == 2

NoShapes == [i \in 1..Len(Strategies) |-> NoShape]

(* the bars and indicator snapshots the two runs are given *)
RerunBars == { bar \in Bars : bar.close \in {498500, 503000} }

RerunSnapshots == { snapshot \in Snapshots : snapshot.present }

InitRerun ==
  /\ \E i \in 1..Len(ReplayConfigs) :
       /\ rm = NewRiskManager(StartingEquity, backtest_risk_config(ReplayConfigs[i]))
       /\ tracker = NewTracker(StartingEquity, MergeConfig(RISK_DEFAULTS, backtest_risk_config(ReplayConfigs[i])))
       /\ fn = [pc |-> "first", config |-> i, tape |-> << >>, pos |-> 1, first |-> NewResults]
  /\ clock = 0
  /\ last = Op("init")
  /\ om = << >>
  /\ eng = [pc |-> "fill", bar |-> NoBar, snapshot |-> NoSnapshot, pending |-> << >>, results |-> NewResults, opened |-> 0]

(* the bar list and the seeded random source: recorded by the first run,   *)
(* replayed by the second                                                  *)
Feed(op, bar, slips, snapshot, shapes) ==
  LET entry == [op |-> op, bar |-> bar, slips |-> slips, snapshot |-> snapshot, shapes |-> shapes]
  IN  IF fn.pc = "first"
      THEN /\ op = "fill" => eng.results.bars_processed < MaxRerunBars
           /\ fn' = [fn EXCEPT !.tape = Append(@, entry)]
      ELSE /\ fn.pos <= Len(fn.tape)
           /\ fn.tape[fn.pos] = entry
           /\ fn' = [fn EXCEPT !.pos = @ + 1]

(* engine.run(bars) called again on the same BacktestEngine: every         *)
(* pipeline component is built afresh from the engine's own configuration  *)
RunAgain(elapsed) ==
  /\ fn.pc = "first"
  /\ eng.pc = "done"
  /\ rm' = NewRiskManager(StartingEquity, backtest_risk_config(ReplayConfigs[fn.config]))
  /\ tracker' = NewTracker(StartingEquity, MergeConfig(RISK_DEFAULTS, backtest_risk_config(ReplayConfigs[fn.config])))
  /\ om' = << >>
  /\ eng' = [pc |-> "fill", bar |-> NoBar, snapshot |-> NoSnapshot, pending |-> << >>, results |-> NewResults, opened |-> 0]
  /\ fn' = [fn EXCEPT !.pc = "second", !.first = eng.results]
  /\ clock' = clock + elapsed
  /\ last' = Op("run_again")

NextRerun ==
  \/ \E bar \in RerunBars, slips \in [1..Len(eng.pending) -> SlipValues] : FillPhase(bar, slips) /\ Feed("fill", bar, slips, NoSnapshot, NoShapes)
  \/ \E slips \in [1..Len(om) -> SlipValues] : ExitPhase(slips) /\ Feed("exit", NoBar, slips, NoSnapshot, NoShapes)
  \/ \E snapshot \in RerunSnapshots : FeaturePhase(snapshot) /\ Feed("feature", NoBar, << >>, snapshot, NoShapes)
  \/ \E shapes \in ShapeChoices : SignalPhase(shapes) /\ Feed("signal", NoBar, << >>, NoSnapshot, shapes)
  \/ \E slips \in [1..Len(om) -> SlipValues] : FinishRun(slips) /\ Feed("finish", NoBar, slips, NoSnapshot, NoShapes)
  \/ \E elapsed \in ClockSteps : RunAgain(elapsed)

SpecRerun == InitRerun /\ [][NextRerun]_vars

(***************************************************************************)
(* Live operation: TradingApp._on_1m_bar, one step per call it makes, and  *)
(* the scheduler's reset jobs.  The bar callbacks are plain functions      *)
(* called on the event loop (ib_provider -> aggregator.on_bar ->           *)
(* _on_1m_bar), so one invocation ends before the next begins.  The reset  *)
(* jobs are plain functions given to an AsyncIOScheduler, whose executor   *)
(* runs every job that is not a coroutine function in the event loop's     *)
(* default executor, a pool of worker threads: a job may run between any   *)
(* two steps of an invocation.                                             *)
(***************************************************************************)
MaxLiveBars == 2

MaxResets == 1

LiveBarSeconds == 60

LiveShapes == { f \in ShapeChoices : \A i \in 2..Len(Strategies) : f[i] = NoShape }

InitLive ==
  /\ rm = NewRiskManager(StartingEquity, << >>)
  /\ tracker = NewTracker(StartingEquity, RISK_DEFAULTS)
  /\ clock = 0
  /\ last = Op("init")
  /\ om = << >>
  /\ eng = [pc |-> "await", bar |-> NoBar, snapshot |-> NoSnapshot, results |-> << >>, opened |-> 0, closed |-> << >>, recorder |-> SqliteRecorder(<< >>), bars |-> 0, resets |-> 0]
  /\ fn = [pc |-> "idle"]

(* steps 1 and 2: indicator_calc.update(bar), signal_generator.on_bar *)
LiveSignal(bar, snapshot, shapes) ==
  /\ eng.pc = "await"
  /\ eng.bars < MaxLiveBars
  /\ LET st == generator_on_bar(rm, tracker, bar, snapshot, shapes, clock + LiveBarSeconds)
     IN  /\ rm' = st.rm
         /\ eng' = [eng EXCEPT !.pc = "fill", !.bar = bar, !.snapshot = snapshot, !.results = st.results, !.opened = 0, !.closed = << >>]
  /\ clock' = clock + LiveBarSeconds
  /\ last' = Op("live_signal")
  /\ UNCHANGED <<tracker, om, fn>>

(* step 3: order_manager.process_signals(risk_results) *)
LiveFill(slips) ==
  /\ eng.pc = "fill"
  /\ LET st == process_signals(rm, tracker, om, eng.results, slips, [i \in 1..Len(eng.results) |-> FALSE], clock)
     IN  /\ rm' = st.rm
         /\ om' = st.open
         /\ eng' = [eng EXCEPT !.pc = "exit", !.opened = Len(st.open) - Len(om)]
  /\ last' = Op("live_fill")
  /\ UNCHANGED <<tracker, clock, fn>>

(* step 4: order_manager.on_bar(bar) *)
LiveExit(slips) ==
  /\ eng.pc = "exit"
  /\ LET st == on_bar(rm, tracker, eng.recorder, om, eng.bar, slips, clock)
     IN  /\ rm' = st.rm
         /\ tracker' = st.tracker
         /\ om' = st.open
         /\ eng' = [eng EXCEPT !.pc = "push", !.closed = st.closed, !.recorder = st.recorder]
  /\ last' = Op("live_exit")
  /\ UNCHANGED <<clock, fn>>

(* step 5: daily_tracker.update_unrealized(get_total_unrealized_pnl()) *)
LivePush ==
  /\ eng.pc = "push"
  /\ tracker' = update_unrealized(tracker, get_total_unrealized_pnl(om))
  /\ eng' = [eng EXCEPT !.pc = "await", !.bars = @ + 1]
  /\ last' = Op("live_push")
  /\ UNCHANGED <<rm, clock, om, fn>>

(* TradingScheduler._daily_reset_job *)
DailyResetJob ==
  /\ eng.resets < MaxResets
  /\ tracker' = reset_daily(tracker)
  /\ eng' = [eng EXCEPT !.resets = @ + 1, !.recorder.today_trades = << >>]
  /\ last' = Op("daily_reset")
  /\ UNCHANGED <<rm, clock, om, fn>>

(* TradingScheduler._weekly_reset_job *)
WeeklyResetJob ==
  /\ eng.resets < MaxResets
  /\ tracker' = reset_weekly(tracker)
  /\ eng' = [eng EXCEPT !.resets = @ + 1]
  /\ last' = Op("weekly_reset")
  /\ UNCHANGED <<rm, clock, om, fn>>

NextLive ==
  \/ \E bar \in Bars, snapshot \in Snapshots, shapes \in LiveShapes : LiveSignal(bar, snapshot, shapes)
  \/ \E slips \in [1..Len(eng.results) -> SlipValues] : LiveFill(slips)
  \/ \E slips \in [1..Len(om) -> SlipValues] : LiveExit(slips)
  \/ LivePush
  \/ DailyResetJob
  \/ WeeklyResetJob

SpecLive == InitLive /\ [][NextLive]_vars

(***************************************************************************)
(* Application shutdown: TradingApp.shutdown, run on the event loop when   *)
(* run_forever returns.  It force-closes the open positions, stops the     *)
(* scheduler and then flushes the aggregator, whose partial 1-minute bar   *)
(* (present once any 5-second bar has arrived) goes through _on_1m_bar.    *)
(***************************************************************************)
ShutdownPrice == 0

InitShutdown ==
  /\ rm = NewRiskManager(StartingEquity, << >>)
  /\ tracker = NewTracker(StartingEquity, RISK_DEFAULTS)
  /\ clock = 0
  /\ last = Op("init")
  /\ om = << >>
  /\ eng = [pc |-> "await", bar |-> NoBar, snapshot |-> NoSnapshot, results |-> << >>, opened |-> 0, closed |-> << >>,
            recorder |-> SqliteRecorder(<< >>), bars |-> 0, resets |-> 0, app |-> "running"]
  /\ fn = [pc |-> "idle"]

(* a 1-minute bar completed while the application runs *)
RunningBar(bar, snapshot, shapes) ==
  /\ eng.app = "running"
  /\ LiveSignal(bar, snapshot, shapes)

(* shutdown up to scheduler.stop(): force_close_all(0.0) when a position   *)
(* is open, the daily summary, the scheduler                               *)
ShutdownForceClose(slips) ==
  /\ eng.app = "running"
  /\ eng.pc = "await"
  /\ LET st == IF om # << >>
               THEN force_close_all(rm, tracker, eng.recorder, om, ShutdownPrice, slips, clock)
               ELSE NewOmState(rm, tracker, eng.recorder, om)
     IN  /\ rm' = st.rm
         /\ tracker' = st.tracker
         /\ om' = st.open
         /\ eng' = [eng EXCEPT !.app = "flush", !.closed = st.closed, !.recorder = st.recorder]
  /\ last' = Op("shutdown_force_close")
  /\ UNCHANGED <<clock, fn>>

(* aggregator.flush() with a partial bar: _emit_1m_bar -> _on_1m_bar,      *)
(* whose first steps are the indicator update and signal_generator.on_bar  *)
ShutdownFlush(bar, snapshot, shapes) ==
  /\ eng.app = "flush"
  /\ eng.pc = "await"
  /\ LET st == generator_on_bar(rm, tracker, bar, snapshot, shapes, clock + LiveBarSeconds)
     IN  /\ rm' = st.rm
         /\ eng' = [eng EXCEPT !.app = "flushed", !.pc = "fill", !.bar = bar, !.snapshot = snapshot,
                               !.results = st.results, !.opened = 0, !.closed = << >>]
  /\ clock' = clock + LiveBarSeconds
  /\ last' = Op("shutdown_flush")
  /\ UNCHANGED <<tracker, om, fn>>

(* the rest of shutdown (disconnect, dashboard, databases), after a flush  *)
(* that emitted a bar or found none pending                                *)
ShutdownComplete ==
  /\ eng.app \in {"flush", "flushed"}
  /\ eng.pc = "await"
  /\ eng' = [eng EXCEPT !.app = "stopped"]
  /\ last' = Op("shutdown_complete")
  /\ UNCHANGED <<rm, tracker, clock, om, fn>>

NextShutdown ==
  \/ \E bar \in Bars, snapshot \in Snapshots, shapes \in LiveShapes : RunningBar(bar, snapshot, shapes)
  \/ \E slips \in [1..Len(eng.results) -> SlipValues] : LiveFill(slips)
  \/ \E slips \in [1..Len(om) -> SlipValues] : LiveExit(slips)
  \/ LivePush
  \/ \E slips \in [1..Len(om) -> SlipValues] : ShutdownForceClose(slips)
  \/ \E bar \in Bars, snapshot \in Snapshots, shapes \in LiveShapes : ShutdownFlush(bar, snapshot, shapes)
  \/ ShutdownComplete

SpecShutdown == InitShutdown /\ [][NextShutdown]_vars

(* A replay of bars that gap away from the signal's price: the fill is     *)
(* re-priced to the next bar's open while the stop stays where the signal  *)
(* put it, so the loss at the stop exceeds the risk the position was sized *)
(* for.  One strategy; the indicator snapshot is present on every bar.     *)
HaltBars ==
  { [open |-> 500000, close |-> 500000, timestamp |-> DT("CT", 2, 10, 0)],
    [open |-> 501000, close |-> 498600, timestamp |-> DT("CT", 2, 10, 0)],
    [open |-> 498600, close |-> 498500, timestamp |-> DT("CT", 2, 10, 0)] }

NextReplayHalt ==
  \/ \E bar \in HaltBars, slips \in [1..Len(eng.pending) -> SlipValues] : FillPhase(bar, slips) /\ UNCHANGED fn
  \/ \E slips \in [1..Len(om) -> SlipValues] : ExitPhase(slips) /\ UNCHANGED fn
  \/ \E snapshot \in RerunSnapshots : FeaturePhase(snapshot) /\ UNCHANGED fn
  \/ \E shapes \in LiveShapes : SignalPhase(shapes) /\ UNCHANGED fn
  \/ \E slips \in [1..Len(om) -> SlipValues] : FinishRun(slips) /\ UNCHANGED fn

SpecReplayHalt == InitReplay /\ [][NextReplayHalt]_vars

(* A replay under a risk configuration that allows one trade a day *)
TradesReplayConfigs == << [max_daily_trades |-> 1] >>

InitReplayTrades ==
  /\ \E i \in 1..Len(TradesReplayConfigs) :
       /\ rm = NewRiskManager(StartingEquity, backtest_risk_config(TradesReplayConfigs[i]))
       /\ tracker = NewTracker(StartingEquity, MergeConfig(RISK_DEFAULTS, backtest_risk_config(TradesReplayConfigs[i])))
  /\ clock = 0
  /\ last = Op("init")
  /\ om = << >>
  /\ eng = [pc |-> "fill", bar |-> NoBar, snapshot |-> NoSnapshot, pending |-> << >>, results |-> NewResults, opened |-> 0]
  /\ fn = [pc |-> "idle"]

SpecReplayTrades == InitReplayTrades /\ [][NextReplayHalt]_vars

(***************************************************************************)
(* Properties                                                              *)
(***************************************************************************)

(* C2: for equity, stop distance, tick value and risk percent all > 0 the  *)
(* size returned by calculate_position_size satisfies                      *)
(* size * stop_ticks * tick_value <= equity * max_risk_pct, lies in        *)
(* [0, max_position_size] and is the largest such size (the floor of the   *)
(* ratio, clamped); if any of the four inputs is <= 0 the size is 0.       *)
C2_SizingBound ==
  fn.pc = "done" =>
    LET valid == fn.account_equity > 0 /\ fn.stop_distance_ticks > 0 /\ fn.tick_value > 0 /\ fn.max_risk_pct > 0
        budget == fn.account_equity * fn.max_risk_pct
        cost   == fn.stop_distance_ticks * fn.tick_value
    IN  /\ ~valid => fn.size = 0
        /\ valid =>
             /\ fn.size * cost <= budget
             /\ fn.size >= 0
             /\ fn.size <= Max(fn.max_position_size, 0)
             /\ fn.size < fn.max_position_size => (fn.size + 1) * cost > budget

C2_Witness ==
  /\ fn.pc = "done"
  /\ fn.size >= 1
  /\ fn.size < fn.max_position_size
  /\ fn.size * fn.stop_distance_ticks * fn.tick_value < fn.account_equity * fn.max_risk_pct

(* The checks of Evaluate in the order the specification lists them, each  *)
(* with the reason it reports: "" when no check fails.                     *)
FirstFailingCheck ==
  LET s     == fn.signal
      hours == check_trading_hours(rm.config, fn.time)
      place == validate_stop_placement(s.entry_price, s.stop_loss, s.direction, fn.atr, rm.config.max_stop_distance_atr, TickSize)
      ticks == calculate_stop_distance_ticks(s.entry_price, s.stop_loss, s.direction, TickSize)
  IN  IF tracker.daily_halted THEN <<"Daily loss limit reached", "DAILY_LIMIT_CHECK">>
      ELSE IF tracker.weekly_halted THEN <<"Weekly loss limit reached", "DAILY_LIMIT_CHECK">>
      ELSE IF tracker.trades_today >= tracker.max_daily_trades THEN <<"Max daily trades reached", "DAILY_LIMIT_CHECK">>
      ELSE IF is_in_cooldown(tracker, clock) THEN <<"Cooldown active", "DAILY_LIMIT_CHECK">>
      ELSE IF ~hours.ok THEN <<hours.reason, "TRADING_HOURS_CHECK">>
      ELSE IF rm.open_positions >= rm.config.max_concurrent_positions THEN <<"Max concurrent positions reached", "MAX_POSITIONS_CHECK">>
      ELSE IF s.stop_loss = None THEN <<"Stop-loss is required", "STOP_REQUIRED_CHECK">>
      ELSE IF ~place.ok THEN <<place.reason, "STOP_VALIDATION_CHECK">>
      ELSE IF ~validate_stop_distance(ticks, (fn.atr * 100) \div TickSize, rm.config.max_stop_distance_atr) THEN <<"Stop distance exceeds ATR limit", "ATR_DISTANCE_CHECK">>
      ELSE IF s.take_profit # None /\ rr_below_minimum(s.entry_price, s.stop_loss, s.take_profit, s.direction, rm.config.min_risk_reward_ratio) THEN <<"R:R ratio below minimum", "RR_RATIO_CHECK">>
      ELSE IF calculate_position_size(rm.account_equity, ticks, TickValue, rm.config.max_risk_per_trade, rm.config.max_position_size) <= 0 THEN <<"Position size calculated as 0 (insufficient equity or stop too wide)", "POSITION_SIZE_CHECK">>
      ELSE <<"", "">>

(* C3: whenever Evaluate returns, it rejects exactly when some check fails, *)
(* the reason is that of the first failing check in the order halt (daily, *)
(* weekly, trade cap, cooldown) -> hours -> positions -> stop -> ATR ->     *)
(* R:R -> sizing, a rejection appends exactly one WARNING event and an     *)
(* approval appends none.                                                  *)
C3_CheckOrder ==
  (fn.pc = "done" /\ last.result.decision # "RAISED") =>
    /\ (last.result.decision = "REJECTED") <=> (FirstFailingCheck[1] # "")
    /\ last.result.decision = "REJECTED" =>
         /\ last.result.reason = FirstFailingCheck[1]
         /\ rm.events = << [event_type |-> FirstFailingCheck[2], severity |-> "WARNING"] >>
    /\ last.result.decision = "APPROVED" => rm.events = << >>

C3_Witness ==
  /\ fn.pc = "done"
  /\ tracker.weekly_halted /\ ~tracker.daily_halted
  /\ tracker.trades_today >= tracker.max_daily_trades
  /\ ~check_trading_hours(rm.config, fn.time).ok
  /\ rm.open_positions >= rm.config.max_concurrent_positions
  /\ fn.signal.stop_loss = None
  /\ last.result.decision = "REJECTED"
  /\ last.result.reason = "Weekly loss limit reached"
  /\ Len(rm.events) = 1

(* C4: an APPROVED result has 1 <= position_size <= max_position_size and  *)
(* no failing check; a REJECTED result has position_size 0, a non-empty    *)
(* reason and the evaluated signal attached.                               *)
C4_ApprovedOnlyIfAllPass ==
  fn.pc = "done" =>
    /\ last.result.decision = "APPROVED" =>
         /\ last.result.position_size >= 1
         /\ last.result.position_size <= rm.config.max_position_size
         /\ FirstFailingCheck[1] = ""
         /\ last.result.signal = fn.signal
    /\ last.result.decision = "REJECTED" =>
         /\ last.result.position_size = 0
         /\ last.result.reason # ""
         /\ last.result.signal = fn.signal

C4_Witness ==
  /\ fn.pc = "done"
  /\ last.result.decision = "REJECTED"
  /\ last.result.position_size = 0
  /\ last.result.reason = "Position size calculated as 0 (insufficient equity or stop too wide)"

(* C5: Evaluate always returns a RiskResult, APPROVED or REJECTED, and      *)
(* never raises, whatever the signal, ATR, time and configuration override. *)
C5_NeverRaises ==
  fn.pc = "done" => last.result.decision \in {"APPROVED", "REJECTED"}

(* C6: every effective configuration value used by Evaluate is at least as *)
(* strict as the documented default, whatever override was passed.         *)
C6_NeverLoosened ==
  /\ rm.config.max_risk_per_trade <= RISK_DEFAULTS.max_risk_per_trade
  /\ rm.config.daily_loss_limit <= RISK_DEFAULTS.daily_loss_limit
  /\ rm.config.weekly_loss_limit <= RISK_DEFAULTS.weekly_loss_limit
  /\ rm.config.max_daily_trades <= RISK_DEFAULTS.max_daily_trades
  /\ rm.config.max_concurrent_positions <= RISK_DEFAULTS.max_concurrent_positions
  /\ rm.config.max_position_size <= RISK_DEFAULTS.max_position_size
  /\ rm.config.min_risk_reward_ratio >= RISK_DEFAULTS.min_risk_reward_ratio
  /\ rm.config.max_stop_distance_atr <= RISK_DEFAULTS.max_stop_distance_atr
  /\ rm.config.cooldown_after_loss >= RISK_DEFAULTS.cooldown_after_loss
  /\ tracker.daily_loss_limit_pct <= RISK_DEFAULTS.daily_loss_limit
  /\ tracker.weekly_loss_limit_pct <= RISK_DEFAULTS.weekly_loss_limit
  /\ tracker.max_daily_trades <= RISK_DEFAULTS.max_daily_trades
  /\ tracker.cooldown_seconds >= RISK_DEFAULTS.cooldown_after_loss

(* C7: right after RecordTradeClosed or UpdateUnrealized, daily_halted     *)
(* holds whenever realized_today + unrealized <= -(equity * daily pct) and *)
(* weekly_halted whenever realized_week + unrealized <= -(equity * weekly  *)
(* pct); equality triggers the halt.                                       *)
C7_HaltedWhenBreached ==
  last.op \in {"record_trade_closed", "update_unrealized"} =>
    /\ (tracker.realized_pnl_today + tracker.unrealized_pnl) * 100 <= -(tracker.account_equity * tracker.daily_loss_limit_pct)
         => tracker.daily_halted
    /\ (tracker.realized_pnl_week + tracker.unrealized_pnl) * 100 <= -(tracker.account_equity * tracker.weekly_loss_limit_pct)
         => tracker.weekly_halted

C7_Witness ==
  /\ last.op = "update_unrealized"
  /\ tracker.daily_halted
  /\ tracker.unrealized_pnl < 0
  /\ tracker.realized_pnl_today * 100 > -(tracker.account_equity * tracker.daily_loss_limit_pct)
  /\ (tracker.realized_pnl_today + tracker.unrealized_pnl) * 100 = -(tracker.account_equity * tracker.daily_loss_limit_pct)
  /\ tracker.events = << "DAILY_LIMIT" >>

CountEvents(events, type) == Cardinality({i \in 1..Len(events) : events[i] = type})

Rose(before, after) == IF ~before /\ after THEN 1 ELSE 0

(* C8: between two resets the tracker holds at most one DAILY_LIMIT and at *)
(* most one WEEKLY_LIMIT event, and a RecordTradeClosed / UpdateUnrealized *)
(* call appends such an event exactly when the corresponding flag goes     *)
(* from false to true, and nothing otherwise.                              *)
C8_EdgeTriggered ==
  /\ [](CountEvents(tracker.events, "DAILY_LIMIT") <= 1 /\ CountEvents(tracker.events, "WEEKLY_LIMIT") <= 1)
  /\ [][last'.op \in {"record_trade_closed", "update_unrealized"} =>
          /\ Len(tracker'.events) = Len(tracker.events) + Rose(tracker.daily_halted, tracker'.daily_halted) + Rose(tracker.weekly_halted, tracker'.weekly_halted)
          /\ SubSeq(tracker'.events, 1, Len(tracker.events)) = tracker.events
          /\ CountEvents(tracker'.events, "DAILY_LIMIT") = CountEvents(tracker.events, "DAILY_LIMIT") + Rose(tracker.daily_halted, tracker'.daily_halted)
          /\ CountEvents(tracker'.events, "WEEKLY_LIMIT") = CountEvents(tracker.events, "WEEKLY_LIMIT") + Rose(tracker.weekly_halted, tracker'.weekly_halted)]_vars

C8_Witness ==
  /\ tracker.daily_halted
  /\ tracker.account_equity = 10000
  /\ tracker.realized_pnl_today = -30000
  /\ tracker.unrealized_pnl = -20000
  /\ tracker.events = << "DAILY_LIMIT" >>

(* C9: while the daily halt is set every Evaluate is REJECTED with the     *)
(* reason "Daily loss limit reached", while the weekly halt is set every   *)
(* Evaluate is REJECTED, and the flags stay set until ResetDaily or        *)
(* ResetWeekly (daily) and ResetWeekly (weekly).                           *)
C9_HaltRejectsUntilReset ==
  /\ [](last.op = "evaluate" =>
          /\ tracker.daily_halted => (last.result.decision = "REJECTED" /\ last.result.reason = "Daily loss limit reached")
          /\ tracker.weekly_halted => last.result.decision = "REJECTED")
  /\ [][/\ (tracker.daily_halted /\ last'.op \notin {"reset_daily", "reset_weekly"}) => tracker'.daily_halted
        /\ (tracker.weekly_halted /\ last'.op # "reset_weekly") => tracker'.weekly_halted]_vars

C9_Witness ==
  /\ last.op = "evaluate"
  /\ tracker.daily_halted
  /\ (tracker.realized_pnl_today + tracker.unrealized_pnl) * 100 > -(tracker.account_equity * tracker.daily_loss_limit_pct)
  /\ last.time.weekday = 5
  /\ last.result.decision = "REJECTED"
  /\ last.result.reason = "Daily loss limit reached"

(* C10: daily_halted goes from true to false only in ResetDaily or         *)
(* ResetWeekly, weekly_halted only in ResetWeekly; RecordTradeClosed,      *)
(* UpdateUnrealized and UpdateEquity never clear a halt.                   *)
C10_HaltClearedOnlyByReset ==
  [][/\ (tracker.daily_halted /\ ~tracker'.daily_halted) => last'.op \in {"reset_daily", "reset_weekly"}
     /\ (tracker.weekly_halted /\ ~tracker'.weekly_halted) => last'.op = "reset_weekly"
     /\ last'.op \in {"record_trade_closed", "update_unrealized", "update_equity"} =>
          /\ tracker.daily_halted => tracker'.daily_halted
          /\ tracker.weekly_halted => tracker'.weekly_halted]_vars

C10_Witness ==
  /\ last.op = "update_unrealized"
  /\ tracker.daily_halted
  /\ tracker.weekly_halted
  /\ (tracker.realized_pnl_today + tracker.unrealized_pnl) * 100 > -(tracker.account_equity * tracker.daily_loss_limit_pct)
  /\ (tracker.realized_pnl_week + tracker.unrealized_pnl) * 100 > -(tracker.account_equity * tracker.weekly_loss_limit_pct)


(* C1: in a replay run every open position risks no more than the budget:  *)
(* quantity x (ticks from its actual entry fill to its stop) x tick value  *)
(* <= account_equity x max_risk_per_trade, after re-pricing to the next    *)
(* bar's open and entry slippage.                                          *)
C1_FillRiskWithinBudget ==
  eng.pc # "idle" =>
    \A i \in 1..Len(om) :
      om[i].original_quantity * ((Abs(om[i].trade.entry_price - om[i].trade.stop_loss) * 100) \div TickSize) * TickValue
        <= rm.account_equity * rm.config.max_risk_per_trade

(* C11: ResetDaily clears today's realized and unrealized P&L, the trade   *)
(* count, the daily halt and the cooldown timer and leaves the weekly      *)
(* realized P&L and the weekly halt as they were; ResetWeekly clears the   *)
(* weekly P&L and halt and everything ResetDaily clears.                   *)
DailyCleared(t) ==
  /\ t.realized_pnl_today = 0
  /\ t.unrealized_pnl = 0
  /\ t.trades_today = 0
  /\ ~t.daily_halted
  /\ t.last_loss_time = None

C11_ResetFrame ==
  [][ /\ last'.op = "reset_daily" =>
           /\ DailyCleared(tracker')
           /\ tracker'.realized_pnl_week = tracker.realized_pnl_week
           /\ tracker'.weekly_halted = tracker.weekly_halted
      /\ last'.op = "reset_weekly" =>
           /\ DailyCleared(tracker')
           /\ tracker'.realized_pnl_week = 0
           /\ ~tracker'.weekly_halted ]_vars

C11_Witness ==
  /\ last.op = "reset_daily"
  /\ tracker.weekly_halted
  /\ tracker.realized_pnl_week < 0
  /\ ~tracker.daily_halted

(* C12: the tracker's event list is append-only: across every tracker      *)
(* operation the earlier list is a prefix of the later one.                *)
IsPrefix(a, b) ==
  /\ Len(a) <= Len(b)
  /\ \A i \in 1..Len(a) : a[i] = b[i]

C12_EventsAppendOnly ==
  [][ IsPrefix(tracker.events, tracker'.events) ]_vars

(* C13: the tracker is in cooldown exactly while clock - (time of the most *)
(* recent losing close since the last daily reset) < cooldown_seconds; a   *)
(* winning or flat close neither starts nor clears it, a later loss        *)
(* restarts it; while in cooldown and neither halted nor over the trade    *)
(* cap CanTrade is false with the cooldown reason, and true again after.   *)
C13_CooldownWindow ==
  fn.pc = "cooldown" =>
    LET expected == fn.loss_at # None /\ clock - fn.loss_at < tracker.cooldown_seconds
        ct == can_trade(tracker, clock)
    IN  /\ is_in_cooldown(tracker, clock) = expected
        /\ (~tracker.daily_halted /\ ~tracker.weekly_halted /\ tracker.trades_today < tracker.max_daily_trades) =>
             /\ ct.ok = ~expected
             /\ expected => ct.reason = "Cooldown active"

C13_Witness ==
  /\ fn.pc = "cooldown"
  /\ fn.loss_at = 30
  /\ clock = 60
  /\ tracker.trades_today = 2
  /\ tracker.realized_pnl_today = -10000
  /\ ~can_trade(tracker, clock).ok
  /\ can_trade(tracker, clock).reason = "Cooldown active"

(* A position is identified by its strategy and entry time. *)
TradeKey(trade) == <<trade.strategy, trade.entry_time>>

Returned(key) == { k \in 1..Len(eng'.returned) : TradeKey(eng'.returned[k]) = key }

StillOpen(key) == { j \in 1..Len(om') : TradeKey(om'[j].trade) = key }

Reached(direction, price, level) ==
  IF direction = "LONG" THEN price >= level ELSE price <= level

AdverseExit(direction, price) ==
  { IF direction = "LONG" THEN price - sl ELSE price + sl : sl \in SlipValues }

(* C14: for the whole life of a position, across every OnBar, a trailing   *)
(* stop once set never loosens: it never falls for a long and never rises  *)
(* for a short, the scale-out bar included.                                *)
C14_TrailingNeverLoosens ==
  [][ eng'.pc = "om" =>
        \A i \in 1..Len(om) : \A j \in StillOpen(TradeKey(om[i].trade)) :
          om[i].trailing_stop # None =>
            /\ om'[j].trailing_stop # None
            /\ IF om[i].trade.direction = "LONG"
               THEN om'[j].trailing_stop >= om[i].trailing_stop
               ELSE om'[j].trailing_stop <= om[i].trailing_stop ]_vars

(* C15: on every OnBar each open position first gets its mark price,       *)
(* unrealized P&L and trailing stop updated, then exactly one outcome in   *)
(* priority order: stop-out close at the effective stop, else scale-out,   *)
(* else take-profit close, else it stays open unchanged; a position        *)
(* meeting both the stop and the target is closed as stop_loss.            *)
C15_OnBarPriority ==
  [][ (eng'.pc = "om" /\ eng'.op = "on_bar") =>
        \A i \in 1..Len(om) :
          LET p    == om[i]
              c    == eng'.price
              d    == p.trade.direction
              key  == TradeKey(p.trade)
              q    == om_update_trailing_stop(update_price(p, c), OmBar(c))
              stop == IF q.trailing_stop # None THEN q.trailing_stop ELSE p.trade.stop_loss
              hitStop   == IF d = "LONG" THEN c <= stop ELSE c >= stop
              hitTarget == p.trade.take_profit # None /\ Reached(d, c, p.trade.take_profit)
              scales    == hitTarget /\ ~p.scale_out_done /\ p.trade.quantity > 1
          IN  /\ q.current_price = c
              /\ q.unrealized_pnl = (((((IF d = "LONG" THEN c - p.trade.entry_price ELSE p.trade.entry_price - c) * 100) \div TickSize) * TickValue) * p.trade.quantity) \div 100
              /\ Cardinality(Returned(key)) + Cardinality(StillOpen(key)) = 1
              /\ IF hitStop
                 THEN \E k \in Returned(key) :
                        /\ eng'.returned[k].notes = "stop_loss"
                        /\ eng'.returned[k].exit_price \in AdverseExit(d, stop)
                 ELSE IF scales
                 THEN \E j \in StillOpen(key) :
                        /\ om'[j].scale_out_done
                        /\ om'[j].current_price = c
                 ELSE IF hitTarget
                 THEN \E k \in Returned(key) :
                        /\ eng'.returned[k].notes = "take_profit"
                        /\ eng'.returned[k].exit_price \in AdverseExit(d, p.trade.take_profit)
                 ELSE \E j \in StillOpen(key) : om'[j] = q ]_vars

C15_Witness ==
  /\ eng.pc = "om"
  /\ eng.op = "on_bar"
  /\ \E k \in 1..Len(eng.returned) :
       /\ eng.returned[k].notes = "stop_loss"
       /\ eng.returned[k].take_profit # None
       /\ Reached(eng.returned[k].direction, eng.price, eng.returned[k].take_profit)

(* C16: a position of quantity q > 1 that has not scaled out, reaches its  *)
(* primary target and is not stopped out on that bar closes exactly        *)
(* floor(q/2) contracts, stays open with q - floor(q/2) >= 1, has          *)
(* scale_out_done set, its effective stop at the entry price and trailing  *)
(* active; a position scales out at most once and a 1-lot never does.      *)
C16_ScaleOut ==
  [][ eng'.pc = "om" =>
        \A i \in 1..Len(om) : \A j \in StillOpen(TradeKey(om[i].trade)) :
          LET p == om[i]
              c == eng'.price
              q == om_update_trailing_stop(update_price(p, c), OmBar(c))
              scales == /\ eng'.op = "on_bar"
                        /\ ~p.scale_out_done
                        /\ p.trade.quantity > 1
                        /\ p.trade.take_profit # None
                        /\ Reached(p.trade.direction, c, p.trade.take_profit)
                        /\ ~should_stop_out(q)
          IN  IF scales
              THEN /\ om'[j].trade.quantity = p.trade.quantity - (p.trade.quantity \div 2)
                   /\ om'[j].trade.quantity >= 1
                   /\ om'[j].scale_out_done
                   /\ effective_stop(om'[j]) = p.trade.entry_price
                   /\ om'[j].trailing_activated
                   /\ tracker'.trades_today > tracker.trades_today
              ELSE /\ om'[j].trade.quantity = p.trade.quantity
                   /\ om'[j].scale_out_done = p.scale_out_done ]_vars

C16_Witness ==
  /\ eng.pc = "om"
  /\ eng.op = "on_bar"
  /\ \E j \in 1..Len(om) :
       /\ om[j].scale_out_done
       /\ om[j].original_quantity = 3
       /\ om[j].trade.quantity = 2
       /\ om[j].trailing_stop = om[j].trade.entry_price

(* C17: after any sequence of ProcessSignals, OnBar and ForceCloseAll      *)
(* every trade returned as closed is CLOSED and the open set holds only    *)
(* positions whose trade is OPEN.                                          *)
C17_ClosedAndOpenSets ==
  eng.pc = "om" =>
    /\ eng.op \in {"on_bar", "force_close_all"} =>
         \A k \in 1..Len(eng.returned) : eng.returned[k].status = "CLOSED"
    /\ eng.op = "process_signals" =>
         \A k \in 1..Len(eng.returned) : eng.returned[k].status = "OPEN"
    /\ \A j \in 1..Len(om) : om[j].trade.status = "OPEN"

C17_Witness ==
  /\ eng.pc = "om"
  /\ eng.op = "on_bar"
  /\ Len(eng.returned) >= 1
  /\ Len(om) >= 1

(* C18: exit_price and exit_time are set together and exactly once, at the *)
(* one OPEN -> CLOSED transition: an open trade has neither, a trade       *)
(* returned as closed has both and was open, without either, just before;  *)
(* it is returned once and is gone from the open set, so it cannot be      *)
(* exited again or reopened.                                               *)
C18_ExitOnce ==
  [][ eng'.pc = "om" =>
        /\ \A j \in 1..Len(om') :
             /\ om'[j].trade.exit_price = None
             /\ om'[j].trade.exit_time = None
        /\ eng'.op \in {"on_bar", "force_close_all"} =>
             \A k \in 1..Len(eng'.returned) :
               LET tr == eng'.returned[k]
               IN  /\ tr.status = "CLOSED"
                   /\ tr.exit_price # None
                   /\ tr.exit_time # None
                   /\ Cardinality(Returned(TradeKey(tr))) = 1
                   /\ StillOpen(TradeKey(tr)) = {}
                   /\ \E i \in 1..Len(om) :
                        /\ TradeKey(om[i].trade) = TradeKey(tr)
                        /\ om[i].trade.status = "OPEN"
                        /\ om[i].trade.exit_price = None
                        /\ om[i].trade.exit_time = None ]_vars

C18_Witness ==
  /\ eng.pc = "om"
  /\ eng.op = "on_bar"
  /\ \E k \in 1..Len(eng.returned) :
       /\ eng.returned[k].notes = "take_profit"
       /\ eng.returned[k].exit_price # None
       /\ eng.returned[k].exit_time # None

(* C19: every full close (stop-out, take-profit or force-close) is one     *)
(* exit fill, lowers the risk manager's open-position count by one, adds   *)
(* the trade's realized dollar P&L to the tracker's realized-today and     *)
(* realized-week P&L, raises the trade count by one and, with a journal    *)
(* configured, records the trade exactly once.  The partial P&L of a       *)
(* scale-out on the same bar is accounted for separately.                  *)
RECURSIVE SumPnl(_, _)
SumPnl(trades, k) ==
  IF k > Len(trades) THEN 0 ELSE trades[k].pnl_dollars + SumPnl(trades, k + 1)

ScaledNow == { i \in 1..Len(om) : ~om[i].scale_out_done /\ \E j \in StillOpen(TradeKey(om[i].trade)) : om'[j].scale_out_done }

PartialPnl(p) ==
  ((((IF p.trade.direction = "LONG" THEN p.trade.take_profit - p.trade.entry_price ELSE p.trade.entry_price - p.trade.take_profit) * 100) \div TickSize) * TickValue * (p.trade.quantity \div 2)) \div 100

RECURSIVE SumPartial(_)
SumPartial(S) ==
  IF S = {} THEN 0 ELSE LET i == CHOOSE x \in S : TRUE IN PartialPnl(om[i]) + SumPartial(S \ {i})

FillPnl(tr) ==
  ((((IF tr.direction = "LONG" THEN tr.exit_price - tr.entry_price ELSE tr.entry_price - tr.exit_price) * 100) \div TickSize) * TickValue * tr.quantity) \div 100 - tr.commission

C19_CloseBookkeeping ==
  [][ (eng'.pc = "om" /\ eng'.op \in {"on_bar", "force_close_all"}) =>
        LET closed == eng'.returned
            n      == Len(closed)
        IN  /\ \A k \in 1..n : closed[k].exit_price # None /\ closed[k].pnl_dollars = FillPnl(closed[k])
            /\ rm'.open_positions = rm.open_positions - n
            /\ tracker'.realized_pnl_today = tracker.realized_pnl_today + SumPnl(closed, 1) + SumPartial(ScaledNow)
            /\ tracker'.realized_pnl_week = tracker.realized_pnl_week + SumPnl(closed, 1) + SumPartial(ScaledNow)
            /\ tracker'.trades_today = tracker.trades_today + n + Cardinality(ScaledNow)
            /\ eng'.recorder.today_trades = eng.recorder.today_trades \o closed ]_vars

C19_Witness ==
  /\ eng.pc = "om"
  /\ eng.recorder.configured
  /\ eng.op = "force_close_all"
  /\ Len(eng.returned) = 2
  /\ Len(eng.recorder.today_trades) = 2
  /\ rm.open_positions = 0
  /\ tracker.trades_today >= 2

(* C20: ForceCloseAll(price) closes every open position at the one given   *)
(* price (before exit slippage) with reason force_close, returns one       *)
(* CLOSED trade per previously open position and leaves the open set       *)
(* empty; on an empty open set it returns nothing and changes nothing.     *)
C20_ForceCloseAll ==
  [][ (eng'.pc = "om" /\ eng'.op = "force_close_all") =>
        /\ om' = << >>
        /\ Len(eng'.returned) = Len(om)
        /\ \A k \in 1..Len(om) :
             LET tr == eng'.returned[k]
             IN  /\ TradeKey(tr) = TradeKey(om[k].trade)
                 /\ tr.status = "CLOSED"
                 /\ tr.notes = "force_close"
                 /\ tr.exit_price \in AdverseExit(tr.direction, eng'.price)
        /\ Len(om) = 0 => (rm' = rm /\ tracker' = tracker /\ eng'.recorder = eng.recorder) ]_vars

C20_Witness ==
  /\ eng.pc = "om"
  /\ eng.op = "force_close_all"
  /\ Len(eng.returned) = 2
  /\ eng.returned[1].direction # eng.returned[2].direction
  /\ eng.returned[1].exit_price # eng.returned[2].exit_price
  /\ om = << >>

AdverseEntry(direction, price) ==
  { IF direction = "LONG" THEN price + sl ELSE price - sl : sl \in SlipValues }

(* C21: a signal approved on bar N is filled only in the fill phase of bar *)
(* N+1, with bar N+1's open as the entry reference: positions are opened  *)
(* by fill steps alone, one per approved pending result and none else,     *)
(* each entered at the open of the bar that has just arrived, slipped      *)
(* against the trader; the step that evaluates the signals opens nothing   *)
(* and only queues them.                                                   *)
C21_NextBarFill ==
  [][ /\ Len(om') > Len(om) => last'.op = "fill"
      /\ last'.op = "signal" => om' = om
      /\ last'.op = "fill" =>
           LET approved == SelectSeq(eng.pending, is_approved)
           IN  /\ Len(om') = Len(om) + Len(approved)
               /\ eng'.pending = << >>
               /\ \A k \in 1..Len(approved) :
                    LET trade == om'[Len(om) + k].trade
                    IN  /\ trade.strategy = approved[k].signal.strategy
                        /\ trade.stop_loss = approved[k].signal.stop_loss
                        /\ trade.entry_price \in AdverseEntry(trade.direction, eng'.bar.open)
    ]_vars

(* a short signalled at the close 5030.00 of one bar (stop 5034.00) is     *)
(* filled at the next bar's open 5000.00                                   *)
C21_Witness ==
  /\ last.op = "fill"
  /\ eng.opened >= 1
  /\ \E j \in 1..Len(om) : om[j].trade.stop_loss = 503400 /\ om[j].trade.entry_price \in AdverseEntry("SHORT", 500000)

NewRmEvents == { rm'.events[k].event_type : k \in (Len(rm.events) + 1)..Len(rm'.events) }

(* C22: within one bar iteration the phases run in the order fill, exit,   *)
(* feature, signal, push of total unrealized P&L, all on the same bar.     *)
(* So every position open after the fill, the ones filled at this bar's    *)
(* open included, is exit-checked against this bar (closed, or marked at   *)
(* its close); and the signals of the bar are evaluated against the        *)
(* open-position count and the tracker as the exits left them, before the  *)
(* push: with the tracker open for trading no signal meets the daily-limit *)
(* gate even when the push of the same iteration halts the day, and with   *)
(* the tracker closed by this bar's exits every signal of the bar is       *)
(* rejected.                                                               *)
C22_PhaseOrder ==
  [][ /\ eng.pc = "fill" => (last'.op = "fill" /\ eng'.pc = "exit") \/ (last'.op = "finish" /\ eng'.pc = "done")
      /\ eng.pc = "exit" => last'.op = "exit" /\ eng'.pc = "feature" /\ eng'.bar = eng.bar
      /\ eng.pc = "feature" => last'.op = "feature" /\ eng'.pc = "signal" /\ eng'.bar = eng.bar
      /\ eng.pc = "signal" => last'.op = "signal" /\ eng'.pc = "fill" /\ eng'.bar = eng.bar
      /\ last'.op = "exit" =>
           /\ Len(om') + (Len(eng'.results.trades) - Len(eng.results.trades)) = Len(om)
           /\ \A j \in 1..Len(om') : om'[j].current_price = eng.bar.close
      /\ last'.op = "signal" =>
           /\ rm.open_positions = Len(om)
           /\ tracker'.unrealized_pnl = get_total_unrealized_pnl(om)
           /\ om' = om
           /\ IF can_trade(tracker, clock).ok
              THEN "DAILY_LIMIT_CHECK" \notin NewRmEvents
              ELSE /\ eng'.pending = << >>
                   /\ NewRmEvents \subseteq {"DAILY_LIMIT_CHECK"}
                   /\ eng'.results.signals_rejected - eng.results.signals_rejected = eng'.results.signals_generated - eng.results.signals_generated
    ]_vars

(* a position filled on this bar is marked at this bar's close, its loss   *)
(* halts the day at the push, and the signal of the same bar was approved  *)
(* before the push                                                         *)
C22_Witness ==
  /\ last.op = "signal"
  /\ eng.opened >= 1
  /\ tracker.daily_halted
  /\ Len(eng.pending) >= 1

(* C23: when the run returns no position is open: the positions still open *)
(* after the last bar are all force-closed at that bar's close (slipped    *)
(* against the trader), each adds one trade with the reason force_close to *)
(* the returned list, and every trade of the returned list is CLOSED.      *)
C23_RunEndsFlat ==
  [][ eng'.pc = "done" =>
        /\ om' = << >>
        /\ rm'.open_positions = 0
        /\ Len(eng'.results.trades) = Len(eng.results.trades) + Len(om)
        /\ \A k \in 1..Len(eng'.results.trades) : eng'.results.trades[k].status = "CLOSED"
        /\ \A j \in 1..Len(om) :
             LET trade == eng'.results.trades[Len(eng.results.trades) + j]
             IN  /\ trade.notes = "force_close"
                 /\ trade.strategy = om[j].trade.strategy
                 /\ trade.exit_price \in AdverseExit(trade.direction, eng.bar.close)
    ]_vars

(* the run has returned after force-closing two positions *)
C23_Witness ==
  /\ eng.pc = "done"
  /\ om = << >>
  /\ Len(eng.results.trades) >= 2
  /\ \A k \in 1..Len(eng.results.trades) : eng.results.trades[k].notes = "force_close"

(* C24: the replay disables the loss cooldown whatever cooldown_after_loss *)
(* the supplied risk configuration carries, so no signal of a run is       *)
(* rejected with a cooldown reason: whatever the strategies propose on the *)
(* bar under evaluation, no result of the risk gate is a rejection for     *)
(* "Cooldown active".                                                      *)
C24_NoCooldownInReplay ==
  eng.pc = "signal" =>
    \A shapes \in ShapeChoices :
      LET st == generator_on_bar(rm, tracker, eng.bar, eng.snapshot, shapes, clock)
      IN  \A k \in 1..Len(st.results) : ~(st.results[k].decision = "REJECTED" /\ st.results[k].reason = "Cooldown active")

(* C25: two runs of the same engine on the same bar sequence with the same *)
(* random draws return identical results: when the second run has consumed *)
(* the whole of the first run's input and returned, its trade list and its *)
(* generated and rejected counts equal those the first run returned.       *)
C25_RunsIdentical ==
  (fn.pc = "second" /\ eng.pc = "done" /\ fn.pos > Len(fn.tape)) =>
    /\ eng.results.trades = fn.first.trades
    /\ eng.results.signals_generated = fn.first.signals_generated
    /\ eng.results.signals_rejected = fn.first.signals_rejected

(* C26: a simulated fill is never better than the requested price, for     *)
(* every requested price and every slippage draw, after tick rounding: a   *)
(* long entry and a short exit fill at or above the requested price, a     *)
(* short entry and a long exit at or below it.                             *)
C26_FillNeverBetter ==
  fn.pc = "done" =>
    IF (fn.direction = "LONG") = fn.is_entry
    THEN fn.fill >= fn.price
    ELSE fn.fill <= fn.price

RECURSIVE CountFaults(_, _)
CountFaults(faults, n) ==
  IF n = 0 \/ faults = << >> THEN 0 ELSE (IF Head(faults) THEN 1 ELSE 0) + CountFaults(Tail(faults), n - 1)

(* C29: when persisting a closed trade fails inside the journal the close  *)
(* still completes and nothing is rolled back or retried: in an OnBar or   *)
(* ForceCloseAll during which commits fail, every returned trade is CLOSED *)
(* with its P&L, each position is either returned or still open (and, on a *)
(* bar, marked at the bar's close: the positions after the failing one are *)
(* processed), the Risk Manager's open count falls by the number of        *)
(* closes, the tracker's realized P&L and trade count take every close,    *)
(* each failed commit is logged once and writes no row, and the commits    *)
(* that succeed write theirs.                                              *)
C29_JournalFailureKeepsClose ==
  [][ (eng'.pc = "om" /\ eng'.op \in {"on_bar", "force_close_all"} /\ eng'.recorder.errors > eng.recorder.errors) =>
        LET closed == eng'.returned
            n      == Len(closed)
            failed == CountFaults(eng.recorder.faults, n)
        IN  /\ \A k \in 1..n : closed[k].status = "CLOSED" /\ closed[k].pnl_dollars = FillPnl(closed[k])
            /\ Len(om') + n = Len(om)
            /\ \A j \in 1..Len(om') : om'[j].trade.status = "OPEN" /\ (eng'.op = "on_bar" => om'[j].current_price = eng'.price)
            /\ rm'.open_positions = rm.open_positions - n
            /\ tracker'.realized_pnl_today = tracker.realized_pnl_today + SumPnl(closed, 1) + SumPartial(ScaledNow)
            /\ tracker'.trades_today = tracker.trades_today + n + Cardinality(ScaledNow)
            /\ eng'.recorder.errors = eng.recorder.errors + failed
            /\ Len(eng'.recorder.rows) = Len(eng.recorder.rows) + n - failed
            /\ eng'.recorder.today_trades = eng.recorder.today_trades \o closed ]_vars

(* two positions closed on one bar, the first commit failed, the second    *)
(* position was still closed and its commit succeeded                     *)
C29_Witness ==
  /\ eng.pc = "om"
  /\ eng.op = "on_bar"
  /\ Len(eng.returned) = 2
  /\ eng.recorder.errors = 1
  /\ eng.recorder.rows = << eng.returned[2] >>
  /\ om = << >>
  /\ rm.open_positions = 0

(* C27: in live operation each completed 1-minute bar drives the replay's  *)
(* pipeline in the replay's order, fill, exit, feature, signal: the live   *)
(* fill step opens positions only for signals approved on an earlier bar,  *)
(* each entered at the open of the bar being processed (slipped against    *)
(* the trader), as the replay's fill phase does; and exits are checked     *)
(* before new signals: when the signals of a bar have been evaluated,      *)
(* every open position has already been marked at that bar's close.        *)
C27_LiveFollowsReplay ==
  [][ /\ last'.op = "live_fill" =>
           \A j \in (Len(om) + 1)..Len(om') : om'[j].trade.entry_price \in AdverseEntry(om'[j].trade.direction, eng.bar.open)
      /\ last'.op = "live_signal" =>
           \A j \in 1..Len(om') : om'[j].current_price = eng'.bar.close
    ]_vars

(* C28: in live operation the bar-pipeline invocations are serialized with *)
(* each other and with the scheduler's reset jobs: an invocation starts    *)
(* only when none is in progress, and a daily or weekly reset of the       *)
(* tracker executes only between invocations, never between the start and  *)
(* the end of one.                                                         *)
C28_PipelineSerialized ==
  [][ /\ last'.op = "live_signal" => eng.pc = "await"
      /\ last'.op \in {"daily_reset", "weekly_reset"} => eng.pc = "await"
    ]_vars

C31_ScaleOutAccounting ==
  [][ (eng'.pc = "om" /\ eng'.op = "on_bar" /\ ScaledNow # {}) =>
        LET closed == eng'.returned
            n      == Len(closed)
        IN  /\ \A i \in ScaledNow : \A j \in StillOpen(TradeKey(om[i].trade)) :
                 /\ om'[j].trade.status = "OPEN"
                 /\ om'[j].trade.exit_price = None
                 /\ om'[j].trade.exit_time = None
                 /\ om'[j].trade.pnl_dollars = None
                 /\ om'[j].trade.entry_price = om[i].trade.entry_price
                 /\ om'[j].trade.stop_loss = om[i].trade.stop_loss
                 /\ om'[j].trade.take_profit = om[i].trade.take_profit
                 /\ om'[j].trade.commission = om[i].trade.commission
                 /\ om'[j].original_quantity = om[i].original_quantity
                 /\ om'[j].trade.quantity = om[i].trade.quantity - (om[i].trade.quantity \div 2)
            /\ Len(om') + n = Len(om)
            /\ rm'.open_positions = rm.open_positions - n
            /\ tracker'.realized_pnl_today = tracker.realized_pnl_today + SumPnl(closed, 1) + SumPartial(ScaledNow)
            /\ tracker'.realized_pnl_week = tracker.realized_pnl_week + SumPnl(closed, 1) + SumPartial(ScaledNow)
            /\ tracker'.trades_today = tracker.trades_today + n + Cardinality(ScaledNow) ]_vars

(* a 2-lot long filled at 5000.00 has scaled out one contract at its       *)
(* target 5012.00: $60.00 realized, one trade counted, nothing closed      *)
C31_Witness ==
  /\ eng.pc = "om"
  /\ eng.op = "on_bar"
  /\ eng.returned = << >>
  /\ Len(om) = 1
  /\ om[1].scale_out_done /\ om[1].trade.status = "OPEN" /\ om[1].trade.quantity = 1 /\ om[1].original_quantity = 2
  /\ rm.open_positions = 1
  /\ tracker.realized_pnl_today = 6000
  /\ tracker.trades_today = 1

(* C32: a position that has scaled out is not closed with reason           *)
(* take_profit on a later bar unless the bar's close has reached the       *)
(* secondary target of the signal that opened it.                          *)
C32_SecondaryTarget ==
  [][ (eng'.pc = "om" /\ eng'.op = "on_bar") =>
        \A i \in 1..Len(om) : om[i].scale_out_done =>
          \A k \in Returned(TradeKey(om[i].trade)) :
            eng'.returned[k].notes = "take_profit" =>
              Reached(om[i].trade.direction, eng'.price, DualSecondary) ]_vars

(* C33: at shutdown every position still open is force-closed at the last  *)
(* known market price, the close of the most recent bar the pipeline saw   *)
(* (slipped against the trader), and the open set is left empty.           *)
C33_ShutdownAtLastPrice ==
  [][ last'.op = "shutdown_force_close" =>
        /\ om' = << >>
        /\ Len(eng'.closed) = Len(om)
        /\ \A k \in 1..Len(eng'.closed) :
             /\ eng'.closed[k].notes = "force_close"
             /\ eng'.closed[k].exit_price \in AdverseExit(eng'.closed[k].direction, eng.bar.close) ]_vars

(* C34: once shutdown has completed the Order Manager holds no open        *)
(* position.                                                               *)
C34_StoppedFlat ==
  eng.pc = "await" /\ "app" \in DOMAIN eng /\ eng.app = "stopped" => om = << >>

(* C35: in a replay the daily or weekly halt is set only when realized     *)
(* P&L plus the unrealized P&L of the positions open at that moment is at  *)
(* or below minus the limit.  Stated for the exit phase of a bar that      *)
(* begins with one position open, where that moment is the end of the      *)
(* phase: a halt newly set there is justified by the realized P&L and the  *)
(* unrealized P&L of what is still open.                                   *)
C35_HaltNotDoubleCounted ==
  [][ (last'.op = "exit" /\ Len(om) = 1) =>
        /\ (~tracker.daily_halted /\ tracker'.daily_halted) =>
             (tracker'.realized_pnl_today + get_total_unrealized_pnl(om')) * 100 <= -daily_loss_limit_dollars(tracker')
        /\ (~tracker.weekly_halted /\ tracker'.weekly_halted) =>
             (tracker'.realized_pnl_week + get_total_unrealized_pnl(om')) * 100 <= -weekly_loss_limit_dollars(tracker') ]_vars

(* C36: when a replay (which has no resets) returns, the realized P&L      *)
(* accumulated in the tracker, for the day and for the week, equals the    *)
(* sum of pnl_dollars over the trades of the returned list.                *)
C36_RealizedMatchesTrades ==
  (eng.pc = "done" /\ "results" \in DOMAIN eng) =>
    /\ tracker.realized_pnl_today = SumPnl(eng.results.trades, 1)
    /\ tracker.realized_pnl_week = SumPnl(eng.results.trades, 1)

(* C37: after any sequence of ProcessSignals (skipped fills included),     *)
(* OnBar (scale-outs included) and ForceCloseAll made through the Order    *)
(* Manager, the Risk Manager's open_positions counter equals the number of *)
(* positions in the open set and is not negative.                          *)
C37_OpenCountMatches ==
  eng.pc = "om" => (rm.open_positions = Len(om) /\ rm.open_positions >= 0)

(* of two approved results one was skipped by the executor; the position   *)
(* the other opened has since scaled out and is the only one open          *)
C37_Witness ==
  /\ eng.pc = "om"
  /\ "skipped" \in DOMAIN eng
  /\ eng.skipped = 1
  /\ eng.op = "on_bar"
  /\ Len(om) = 1
  /\ om[1].scale_out_done
  /\ rm.open_positions = 1

(* C38: in a pipeline run the number of simultaneously open positions      *)
(* never exceeds max_concurrent_positions.                                 *)
C38_ConcurrentBound ==
  /\ Len(om) <= rm.config.max_concurrent_positions
  /\ rm.open_positions <= rm.config.max_concurrent_positions

(* C39: between two daily resets the number of positions opened never      *)
(* exceeds max_daily_trades.  A replay has no reset, and every position it *)
(* has opened is either still open or in its list of closed trades.        *)
C39_DailyTradesBound ==
  ("results" \in DOMAIN eng /\ eng.pc \in {"fill", "exit", "feature", "signal", "done"}) =>
    Len(eng.results.trades) + Len(om) <= tracker.max_daily_trades

(* C40: the replay engine's counters are consistent.  Every bar is counted *)
(* once, when its last phase ends, and by no other step; the signal phase  *)
(* adds the bar's evaluated results to signals_generated and the REJECTED  *)
(* ones to signals_rejected, and queues exactly the others, all APPROVED;  *)
(* a bar whose indicator snapshot is null adds and queues nothing; the     *)
(* step that ends the run changes no counter, adds one trade per position  *)
(* that was open and none for a queued result.  Hence rejected <=          *)
(* generated throughout.                                                   *)
C40_CountersConsistent ==
  [][ LET res == eng.results
          new == eng'.results
      IN  /\ new.signals_rejected <= new.signals_generated
          /\ last'.op = "signal" =>
               /\ new.bars_processed = res.bars_processed + 1
               /\ new.signals_generated - res.signals_generated
                    = (new.signals_rejected - res.signals_rejected) + Len(eng'.pending)
               /\ new.signals_rejected >= res.signals_rejected
               /\ new.signals_generated - res.signals_generated <= Len(Strategies)
               /\ \A k \in 1..Len(eng'.pending) : eng'.pending[k].decision = "APPROVED"
               /\ ~eng.snapshot.present =>
                    (new.signals_generated = res.signals_generated /\ eng'.pending = << >>)
               /\ new.trades = res.trades
          /\ last'.op \in {"fill", "exit", "feature", "finish"} =>
               /\ new.bars_processed = res.bars_processed
               /\ new.signals_generated = res.signals_generated
               /\ new.signals_rejected = res.signals_rejected
          /\ last'.op = "fill" =>
               /\ Len(om') = Len(om) + Len(eng.pending)
               /\ eng'.pending = << >>
          /\ last'.op = "finish" =>
               /\ Len(new.trades) = Len(res.trades) + Len(om)
               /\ om' = << >>
               /\ eng'.pc = "done" ]_vars

(* the last bar of a run has been processed: results were rejected on an   *)
(* earlier bar, and a result approved on this last bar is queued with no   *)
(* bar left to fill it                                                     *)
C40_Witness ==
  /\ eng.pc = "fill"
  /\ last.op = "signal"
  /\ eng.results.bars_processed = MaxBars
  /\ eng.results.signals_rejected >= 1
  /\ Len(eng.pending) >= 1
  /\ eng.results.signals_generated > eng.results.signals_rejected + Len(eng.pending)

====
